---- MODULE Spec2Model ----
(***************************************************************************)
(* Session registry and container manager of agcluster-container.          *)
(*                                                                         *)
(* SessionManager (core/session_manager.py) maps session ids to            *)
(* AgentContainer objects and drives ContainerManager                      *)
(* (core/container_manager.py).  Every request handler is an asyncio       *)
(* coroutine: code between two awaits runs atomically, and every awaited   *)
(* call on the container manager is a point where other coroutines run.    *)
(*                                                                         *)
(* Spec          : SessionManager with its callers, the idle sweep and      *)
(*                 shutdown, all interleaved.                              *)
(* SpecRequests  : the request handlers and the clock.                     *)
(* SpecLifecycle : get_or_create_session, the clock, the idle sweep and    *)
(*                 shutdown.                                               *)
(* SpecCM        : ContainerManager driven directly, call by call.         *)
(* SpecLaunch    : POST /launch with runtime MCP credentials.              *)
(* SpecProvider  : DockerProvider / FlyProvider create and stop calls.     *)
(* SpecQuery     : the raw event streams of the providers and of           *)
(*                 AgentContainer.query.                                   *)
(* SpecTranslate : stream_to_openai_sse and stream_claude_events.          *)
(* SpecChat      : POST /chat with a caller that may disconnect.           *)
(* SpecMemory    : FlyProvider._parse_memory_limit.                        *)
(* SpecFactory   : ProviderFactory.                                        *)
(* SpecUpload    : upload_files of both providers.                         *)
(* SpecGet       : get_session among get_or_create_session calls.          *)
(* SpecReplace   : one create_session_from_config call, step by step.      *)
(* SpecTask      : start_cleanup_task / stop_cleanup_task.                 *)
(* SpecLifespan  : the lifespan of the API process.                        *)
(* SpecSandbox   : process_query_stream of the sandbox's agent server.     *)
(* SpecKeys      : get_or_create_session called with different API keys.   *)
(* SpecOverride  : sessions created with a provider override.              *)
(***************************************************************************)
EXTENDS Integers, Sequences, FiniteSets, Bags, TLC

\* ---------------------------------------------------------------- bounds
NumTasks == 2        \* request coroutines in flight at the same time
MaxAgents == 2       \* agent ids (uuid4 values) handed out in one run

Convs == {"c1"}      \* caller supplied conversation ids
Keys == {"k1"}       \* API keys
NoConv == ""         \* conversation_id None or empty

\* SessionManager.idle_timeout; time is counted in units of it
IdleTimeout == 1

Agents == 1..MaxAgents
NoAgent == 0

VARIABLES
    sessions,            \* SessionManager.sessions: dict in insertion order; an
                         \* entry is the AgentContainer with its idle time
                         \* now - last_active
    active_containers,   \* ContainerManager.active_containers (its keys)
    nextAgent,           \* next unused agent id
    tasks,               \* request coroutines in flight (a bag)
    sweep,               \* the cleanup_loop task and its current pass
    shutdown,            \* the lifespan shutdown (cleanup_all_sessions)
    fresh,               \* per session id: the agent an idle sweep reclaimed from
                         \* it, until the id is looked up or created again
    cm,                  \* SpecCM: creations in progress, agents stop was
                         \* attempted on, the last ContainerManager call
    sandboxes,           \* SpecLaunch: the sandboxes provisioned, each with the
                         \* request it was made for and its environment
    response,            \* SpecLaunch: the last launch request and its answer
    prov,                \* SpecProvider: the provider, its backend, the create
                         \* call in progress, the last call
    stream,              \* SpecQuery: a query stream (execute_query or
                         \* AgentContainer.query) and what it has yielded
    tr,                  \* SpecTranslate: a translator generator, the raw events
                         \* it has consumed and the output it has yielded
    chat,                \* SpecChat: a POST /chat request, its caller, the
                         \* connection to the sandbox and the agent process
    mem,                 \* SpecMemory: a call of FlyProvider._parse_memory_limit,
                         \* its argument and how it ended
    factory,             \* SpecFactory: ProviderFactory._providers, the provider
                         \* instances constructed, the last call
    upload,              \* SpecUpload: the files in a container's target
                         \* directory and the last upload_files call
    replace,             \* SpecReplace: one create_session_from_config call
                         \* followed step by step, with the ContainerManager
                         \* calls it has made
    ctask,               \* SpecTask, SpecLifespan: SessionManager._cleanup_task,
                         \* the cleanup_loop tasks alive, the lifespan
    sbx,                 \* SpecSandbox: one process_query_stream of the sandbox's
                         \* agent server
    iso,                 \* SpecKeys: a session table used by callers with
                         \* different API keys, one call at a time
    ovr                  \* SpecOverride: sessions created with and without a
                         \* provider override, one call at a time

\* the state of the helper calls
util == <<mem, factory, upload, replace, ctask, sbx, iso, ovr>>

\* what the SessionManager handlers do not touch
ext == <<prov, stream, tr, chat, util>>

aux == <<cm, sandboxes, response, ext>>

vars == <<sessions, active_containers, nextAgent, tasks, sweep, shutdown, fresh, aux>>

\* ------------------------------------------------- dict helpers (sessions)
Has(s, sid) == \E i \in 1..Len(s) : s[i].sid = sid

Get(s, sid) == s[CHOOSE i \in 1..Len(s) : s[i].sid = sid].agent

\* AgentContainer.__init__: last_active = now
Entry(sid, a) == [sid |-> sid, agent |-> a, idle |-> 0]

\* d[sid] = AgentContainer(a): an existing key keeps its position, a new key
\* goes last
Put(s, sid, a) ==
    IF Has(s, sid)
    THEN [i \in 1..Len(s) |-> IF s[i].sid = sid THEN Entry(sid, a) ELSE s[i]]
    ELSE Append(s, Entry(sid, a))

\* d[sid].last_active = now
Touch(s, sid) ==
    [i \in 1..Len(s) |-> IF s[i].sid = sid THEN [s[i] EXCEPT !.idle = 0] ELSE s[i]]

\* del d[sid]
Del(s, sid) == SelectSeq(s, LAMBDA e : e.sid # sid)

Ref(e) == [sid |-> e.sid, agent |-> e.agent]

\* (session id, container) pairs of a table or list
Refs(s) == {Ref(s[i]) : i \in 1..Len(s)}

\* ------------------------------------------------------- SessionManager
\* sha256(api_key).hexdigest()[:12]; distinct keys of the model have
\* distinct digests
api_key_hash(key) == "sha256:" \o key

_generate_session_id(conv, key) ==
    IF conv # NoConv THEN "conv-" \o conv ELSE "user-" \o api_key_hash(key)

\* ------------------------------------------------------ ContainerManager
\* docker_client.containers.run(...) either returns a container or raises
RunOutcomes == {"started", "image_not_found", "api_error"}

\* _wait_for_ready either returns or raises TimeoutError
ReadyOutcomes == {"ready", "timeout"}

\* what the docker daemon does with containers.get / stop / remove
BackendStop == {"ok", "not_found", "error"}

RunException(o) ==
    IF o = "image_not_found" THEN "ValueError"
    ELSE IF o = "api_error" THEN "RuntimeError" ELSE "none"

\* a creation that registers the container before it waits for readiness
create_agent_container_register_first(active, agent, ready) ==
    [active |-> active \cup {agent},
     exc |-> IF ready = "ready" THEN "none" ELSE "TimeoutError"]

\* create_agent_container / create_agent_container_from_config after the
\* container was started: wait for readiness, then register the container
create_agent_container(active, agent, ready) ==
    IF ready = "ready"
    THEN [active |-> active \cup {agent}, exc |-> "none"]
    ELSE [active |-> active, exc |-> "TimeoutError"]

\* a stop_container whose del sits in the try block instead of finally
stop_container_del_in_try(active, agent, backend) ==
    IF agent \notin active
    THEN [active |-> active, attempted |-> FALSE, raised |-> FALSE]
    ELSE [active |-> IF backend = "ok" THEN active \ {agent} ELSE active,
          attempted |-> TRUE, raised |-> FALSE]

\* stop_container(agent_id)
stop_container(active, agent, backend) ==
    IF agent \notin active
    THEN [active |-> active, attempted |-> FALSE, raised |-> FALSE]
    ELSE [active |-> active \ {agent}, attempted |-> TRUE, raised |-> FALSE]

\* ------------------------------------------- the awaited stop, as called
\* Every call site awaits container_manager.stop_container inside
\* try/except Exception.  The await either returns, with the effect of
\* ContainerManager.stop_container, or raises into the except branch.
StopOutcomes == BackendStop \cup {"raise"}

AwaitStop(active, agent, o) ==
    IF o = "raise"
    THEN [active |-> active, attempted |-> FALSE, raised |-> TRUE]
    ELSE stop_container(active, agent, o)

\* try: await stop_container(...); del self.sessions[sid]  except Exception: log
\* (del of a key that is gone raises KeyError, which the handler swallows too)
StopAndDelete(s, sid, r) == IF r.raised THEN s ELSE Del(s, sid)

\* --------------------------------------------------------------- tasks
NoSid == "-"

SessionIds == {"conv-" \o c : c \in Convs} \cup {"user-" \o api_key_hash(k) : k \in Keys}

\* A request coroutine in flight is suspended at an await (goc_wait, cs_stop,
\* csc_stop, csc_wait) or back in its caller with the call's result:
\* "returned" with the returned container and how it was obtained, or
\* "raised" with the exception.
Waiting(pc, sid, agent, provider) ==
    [pc |-> pc, sid |-> sid, agent |-> agent, provider |-> provider, res |-> "none"]

Returned(how, agent) ==
    [pc |-> "returned", sid |-> NoSid, agent |-> agent, provider |-> FALSE, res |-> how]

Raised(exc) ==
    [pc |-> "raised", sid |-> NoSid, agent |-> NoAgent, provider |-> FALSE, res |-> exc]

InFlight == BagToSet(tasks)

\* a handler is entered / moves on / is left
Start(d) ==
    /\ shutdown.pc = "up"
    /\ BagCardinality(tasks) < NumTasks
    /\ tasks' = tasks (+) SetToBag({d})

Step(c, d) == tasks' = (tasks (-) SetToBag({c})) (+) SetToBag({d})

\* the agent id (uuid4) a creation call consumes
TakeAgentId(creates) ==
    IF creates
    THEN nextAgent <= MaxAgents /\ nextAgent' = nextAgent + 1
    ELSE UNCHANGED nextAgent

\* get_or_create_session whose reuse branch forgets the last_active update
get_or_create_session_stale(s, sid, agentId, run) ==
    IF Has(s, sid)
    THEN [sessions |-> s, creates |-> FALSE, task |-> Returned("reuse", Get(s, sid))]
    ELSE [sessions |-> s, creates |-> TRUE,
          task |-> IF run = "started" THEN Waiting("goc_wait", sid, agentId, FALSE)
                   ELSE Raised(RunException(run))]

\* get_or_create_session up to its return or to the await inside
\* create_agent_container
get_or_create_session(s, sid, agentId, run) ==
    IF Has(s, sid)
    THEN [sessions |-> Touch(s, sid), creates |-> FALSE,
          task |-> Returned("reuse", Get(s, sid))]
    ELSE [sessions |-> s, creates |-> TRUE,
          task |-> IF run = "started" THEN Waiting("goc_wait", sid, agentId, FALSE)
                   ELSE Raised(RunException(run))]

GocCall(conv, key, run) ==
    LET sid == _generate_session_id(conv, key)
        r == get_or_create_session(sessions, sid, nextAgent, run)
    IN
    /\ Start(r.task)
    /\ fresh' = [fresh EXCEPT ![sid] = NoAgent]
    /\ sessions' = r.sessions
    /\ TakeAgentId(r.creates)
    /\ UNCHANGED <<active_containers, sweep, shutdown, aux>>

\* the rest of a creating call: readiness, registration, sessions[sid] = c
FinishCreate(c, ready) ==
    LET r == create_agent_container(active_containers, c.agent, ready) IN
    /\ active_containers' = r.active
    /\ IF r.exc = "none"
       THEN /\ sessions' = Put(sessions, c.sid, c.agent)
            /\ Step(c, Returned("created", c.agent))
       ELSE /\ Step(c, Raised(r.exc))
            /\ UNCHANGED sessions
    /\ UNCHANGED <<nextAgent, sweep, shutdown, aux>>

GocFinish(c, ready) ==
    /\ c.pc = "goc_wait"
    /\ FinishCreate(c, ready)
    /\ UNCHANGED fresh

\* the caller takes the result; the coroutine ends
Return(c) ==
    /\ c.pc \in {"returned", "raised"}
    /\ tasks' = tasks (-) SetToBag({c})
    /\ UNCHANGED <<sessions, active_containers, nextAgent, sweep, shutdown, fresh, aux>>

\* cleanup_session up to the awaited stop
CleanupCall(sid) ==
    /\ Start(IF Has(sessions, sid)
             THEN Waiting("cs_stop", sid, Get(sessions, sid), FALSE)
             ELSE Returned("absent", NoAgent))
    /\ UNCHANGED <<sessions, active_containers, nextAgent, sweep, shutdown, fresh, aux>>

\* cleanup_session from the awaited stop to its return
cleanup_session(s, sid, r) == StopAndDelete(s, sid, r)

CleanupFinish(c, o) ==
    LET r == AwaitStop(active_containers, c.agent, o) IN
    /\ c.pc = "cs_stop"
    /\ active_containers' = r.active
    /\ sessions' = cleanup_session(sessions, c.sid, r)
    /\ Step(c, Returned(IF r.raised THEN "stop_raised" ELSE "cleaned", NoAgent))
    /\ UNCHANGED <<nextAgent, sweep, shutdown, fresh, aux>>

\* create_session_from_config: the configuration argument
ConfigArgs == {"config_id", "unknown_id", "inline", "none"}

ConfigException(cfg) ==
    IF cfg = "none" THEN "ValueError"
    ELSE IF cfg = "unknown_id" THEN "ConfigNotFoundError" ELSE "none"

\* session ids create_session_from_config can compute: conv-<conversation_id>,
\* or conv-<token_urlsafe(32)>, a key the table does not hold
ConfigSessionIds(conv) ==
    IF conv # NoConv THEN {"conv-" \o conv}
    ELSE {"conv-" \o d : d \in {e \in Convs : ~Has(sessions, "conv-" \o e)}}

\* create_session_from_config from "if provider:" to the await inside
\* create_agent_container_from_config.  ContainerManager.__init__ takes no
\* provider_name, so the provider branch raises TypeError.
BeginCreate(sid, provider, agentId, run) ==
    IF provider
    THEN [creates |-> FALSE, task |-> Raised("TypeError")]
    ELSE [creates |-> TRUE,
          task |-> IF run = "started" THEN Waiting("csc_wait", sid, agentId, FALSE)
                   ELSE Raised(RunException(run))]

CscCall(conv, cfg, provider, run) ==
    /\ IF ConfigException(cfg) # "none"
       THEN /\ Start(Raised(ConfigException(cfg)))
            /\ UNCHANGED nextAgent
       ELSE \E sid \in ConfigSessionIds(conv) :
              IF Has(sessions, sid)
              THEN /\ Start(Waiting("csc_stop", sid, Get(sessions, sid), provider))
                   /\ UNCHANGED nextAgent
              ELSE LET b == BeginCreate(sid, provider, nextAgent, run) IN
                   /\ Start(b.task)
                   /\ TakeAgentId(b.creates)
    /\ UNCHANGED <<sessions, active_containers, sweep, shutdown, fresh, aux>>

\* the cleanup_session of the replaced session returns, creation starts
CscStopDone(c, o, run) ==
    LET r == AwaitStop(active_containers, c.agent, o)
        b == BeginCreate(c.sid, c.provider, nextAgent, run)
    IN
    /\ c.pc = "csc_stop"
    /\ active_containers' = r.active
    /\ sessions' = cleanup_session(sessions, c.sid, r)
    /\ Step(c, b.task)
    /\ TakeAgentId(b.creates)
    /\ UNCHANGED <<sweep, shutdown, fresh, aux>>

CscFinish(c, ready) ==
    /\ c.pc = "csc_wait"
    /\ FinishCreate(c, ready)
    /\ fresh' = IF ready = "ready" THEN [fresh EXCEPT ![c.sid] = NoAgent] ELSE fresh

\* ------------------------- create_session_from_config, one call followed
\* pc: where the call is (idle, csc_stop, csc_wait, returned, raised)
\* had / old: whether the session id was in the table at the call, and its
\*     container then
\* agent: the container the call creates
\* log: the ContainerManager calls the call has made, in order
NoReplace == [pc |-> "idle", sid |-> NoSid, had |-> FALSE, old |-> NoAgent,
              agent |-> NoAgent, provider |-> FALSE, log |-> <<>>]

Called(op, agent) == [op |-> op, agent |-> agent]

\* a create_session_from_config that does not look for an existing session
session_exists_never(s, sid) == FALSE

\* if session_id in self.sessions
session_exists(s, sid) == Has(s, sid)

\* the call after "if provider:": its state and log
ReplaceBegin(r, b) ==
    IF b.task.pc = "csc_wait"
    THEN [r EXCEPT !.pc = "csc_wait", !.agent = b.task.agent,
                   !.log = Append(@, Called("create", b.task.agent))]
    ELSE [r EXCEPT !.pc = "raised",
                   !.log = IF b.creates THEN Append(@, Called("create", nextAgent)) ELSE @]

ReplaceCall(conv, cfg, provider, run) ==
    /\ shutdown.pc = "up"
    /\ replace.pc \in {"idle", "returned", "raised"}
    /\ IF ConfigException(cfg) # "none"
       THEN /\ replace' = [NoReplace EXCEPT !.pc = "raised"]
            /\ UNCHANGED nextAgent
       ELSE \E sid \in ConfigSessionIds(conv) :
              LET r == [NoReplace EXCEPT !.sid = sid, !.provider = provider,
                                         !.had = Has(sessions, sid)]
              IN
              IF session_exists(sessions, sid)
              THEN /\ replace' = [r EXCEPT !.pc = "csc_stop", !.old = Get(sessions, sid)]
                   /\ UNCHANGED nextAgent
              ELSE LET b == BeginCreate(sid, provider, nextAgent, run) IN
                   /\ replace' = ReplaceBegin(r, b)
                   /\ TakeAgentId(b.creates)
    /\ UNCHANGED <<sessions, active_containers, tasks, sweep, shutdown, fresh,
                   cm, sandboxes, response, prov, stream, tr, chat, mem, factory, upload, ctask, sbx, iso, ovr>>

\* the cleanup_session of the replaced session returns, creation starts
ReplaceStopDone(o, run) ==
    LET r == AwaitStop(active_containers, replace.old, o)
        b == BeginCreate(replace.sid, replace.provider, nextAgent, run)
        stopped == [replace EXCEPT !.log = Append(@, Called("stop", replace.old))]
    IN
    /\ replace.pc = "csc_stop"
    /\ active_containers' = r.active
    /\ sessions' = cleanup_session(sessions, replace.sid, r)
    /\ replace' = ReplaceBegin(stopped, b)
    /\ TakeAgentId(b.creates)
    /\ UNCHANGED <<tasks, sweep, shutdown, fresh,
                   cm, sandboxes, response, prov, stream, tr, chat, mem, factory, upload, ctask, sbx, iso, ovr>>

\* readiness, registration, self.sessions[session_id] = agent_container, return
ReplaceFinish(ready) ==
    LET r == create_agent_container(active_containers, replace.agent, ready) IN
    /\ replace.pc = "csc_wait"
    /\ active_containers' = r.active
    /\ sessions' = IF r.exc = "none" THEN Put(sessions, replace.sid, replace.agent)
                   ELSE sessions
    /\ replace' = [replace EXCEPT !.pc = IF r.exc = "none" THEN "returned" ELSE "raised"]
    /\ fresh' = IF r.exc = "none" THEN [fresh EXCEPT ![replace.sid] = NoAgent] ELSE fresh
    /\ UNCHANGED <<nextAgent, tasks, sweep, shutdown,
                   cm, sandboxes, response, prov, stream, tr, chat, mem, factory, upload, ctask, sbx, iso, ovr>>

\* ----------------------------------------------------------- get_session
\* a get_session that makes an entry for an id it does not know
get_session_default(s, sid) ==
    IF Has(s, sid)
    THEN [sessions |-> Touch(s, sid),
          task |-> [Returned("got", Get(s, sid)) EXCEPT !.sid = sid]]
    ELSE [sessions |-> Put(s, sid, NoAgent),
          task |-> [Returned("got", NoAgent) EXCEPT !.sid = sid]]

\* get_session: no await, the call runs to its return or raise
get_session(s, sid) ==
    IF Has(s, sid)
    THEN [sessions |-> Touch(s, sid),
          task |-> [Returned("got", Get(s, sid)) EXCEPT !.sid = sid]]
    ELSE [sessions |-> s,
          task |-> [Raised("SessionNotFoundError") EXCEPT !.sid = sid]]

GetCall(sid) ==
    LET r == get_session(sessions, sid) IN
    /\ Start(r.task)
    /\ sessions' = r.sessions
    /\ UNCHANGED <<active_containers, nextAgent, sweep, shutdown, fresh, aux>>

\* ------------------------------------------------------ the idle sweep
\* items: sessions_to_remove; idx: the next one to stop
NoPass == [pc |-> "sleep", items |-> <<>>, idx |-> 1]

\* idle_time > self.idle_timeout
IsIdle(e) == e.idle > IdleTimeout

\* cleanup_idle_sessions: the first loop
sessions_to_remove(s) == SelectSeq(s, IsIdle)

SweepSelect ==
    LET sel == sessions_to_remove(sessions)
        items == [i \in 1..Len(sel) |-> Ref(sel[i])]
    IN
    /\ shutdown.pc = "up"
    /\ sweep.pc = "sleep"
    /\ sweep' = [NoPass EXCEPT
                    !.pc = IF Len(items) = 0 THEN "done" ELSE "stopping",
                    !.items = items]
    /\ UNCHANGED <<sessions, active_containers, nextAgent, tasks, shutdown, fresh, aux>>

\* a second loop without try/except: a raising stop ends the pass
cleanup_idle_step_abort(sw, r) ==
    IF r.raised
    THEN [sw EXCEPT !.pc = "failed"]
    ELSE [sw EXCEPT !.idx = @ + 1,
                    !.pc = IF sw.idx = Len(sw.items) THEN "done" ELSE "stopping"]

\* cleanup_idle_sessions: one iteration of the second loop
cleanup_idle_step(sw, r) ==
    [sw EXCEPT !.idx = @ + 1,
               !.pc = IF sw.idx = Len(sw.items) THEN "done" ELSE "stopping"]

SweepStop(o) ==
    LET it == sweep.items[sweep.idx]
        r == AwaitStop(active_containers, it.agent, o)
        deleted == ~r.raised /\ Has(sessions, it.sid)
    IN
    /\ sweep.pc = "stopping"
    /\ active_containers' = r.active
    /\ sessions' = StopAndDelete(sessions, it.sid, r)
    /\ sweep' = cleanup_idle_step(sweep, r)
    /\ fresh' = IF deleted THEN [fresh EXCEPT ![it.sid] = it.agent] ELSE fresh
    /\ UNCHANGED <<nextAgent, tasks, shutdown, aux>>

\* cleanup_loop goes back to asyncio.sleep
SweepSleep ==
    /\ sweep.pc \in {"done", "failed"}
    /\ sweep' = NoPass
    /\ UNCHANGED <<sessions, active_containers, nextAgent, tasks, shutdown, fresh, aux>>

\* ------------------------------------------------------------ shutdown
\* items: list(self.sessions.items()); idx: the next one to stop
Running == [pc |-> "up", items |-> <<>>, idx |-> 1]

\* lifespan shutdown: stop_cleanup_task cancels the sweep task
ShutdownBegin ==
    /\ shutdown.pc = "up"
    /\ shutdown' = [shutdown EXCEPT !.pc = "cancelled"]
    /\ sweep' = [NoPass EXCEPT !.pc = "cancelled"]
    /\ UNCHANGED <<sessions, active_containers, nextAgent, tasks, fresh, aux>>

\* cleanup_all_sessions: list(self.sessions.items()), and clear() when empty
AllSelect ==
    /\ shutdown.pc = "cancelled"
    /\ shutdown' = [shutdown EXCEPT
                       !.pc = IF Len(sessions) = 0 THEN "down" ELSE "stopping",
                       !.items = [i \in 1..Len(sessions) |-> Ref(sessions[i])]]
    /\ UNCHANGED <<sessions, active_containers, nextAgent, tasks, sweep, fresh, aux>>

\* a cleanup_all_sessions without try/except: a raising stop ends it, before
\* self.sessions.clear()
cleanup_all_step_abort(sd, s, r) ==
    IF r.raised
    THEN [shutdown |-> [sd EXCEPT !.pc = "down"], sessions |-> s]
    ELSE [shutdown |-> [sd EXCEPT !.idx = @ + 1,
                                  !.pc = IF sd.idx = Len(sd.items) THEN "down"
                                         ELSE "stopping"],
          sessions |-> IF sd.idx = Len(sd.items) THEN <<>> ELSE s]

\* cleanup_all_sessions: one iteration; self.sessions.clear() after the last
cleanup_all_step(sd, s, r) ==
    [shutdown |-> [sd EXCEPT !.idx = @ + 1,
                             !.pc = IF sd.idx = Len(sd.items) THEN "down" ELSE "stopping"],
     sessions |-> IF sd.idx = Len(sd.items) THEN <<>> ELSE s]

AllStop(o) ==
    LET it == shutdown.items[shutdown.idx]
        r == AwaitStop(active_containers, it.agent, o)
        n == cleanup_all_step(shutdown, sessions, r)
    IN
    /\ shutdown.pc = "stopping"
    /\ active_containers' = r.active
    /\ shutdown' = n.shutdown
    /\ sessions' = n.sessions
    /\ UNCHANGED <<nextAgent, tasks, sweep, fresh, aux>>

\* --------------------------------------------------------------- clock
\* time passes: every idle time grows; beyond the timeout it is not counted
Older(e) == [e EXCEPT !.idle = IF @ > IdleTimeout THEN @ ELSE @ + 1]

Tick ==
    /\ sessions' = [i \in 1..Len(sessions) |-> Older(sessions[i])]
    /\ UNCHANGED <<active_containers, nextAgent, tasks, sweep, shutdown, fresh, aux>>

\* ------------------------------------- ContainerManager, call by call
NoCM == [pending |-> {}, stopped |-> {},
         ev |-> [op |-> "none", agent |-> NoAgent, arg |-> "none", present |-> FALSE,
                 raised |-> FALSE]]

CMEvent(op, agent, arg, present, raised) ==
    [op |-> op, agent |-> agent, arg |-> arg, present |-> present, raised |-> raised]

\* create_agent_container up to the await of _wait_for_ready
CMCreate(run) ==
    /\ TakeAgentId(TRUE)
    /\ cm' = [cm EXCEPT
                 !.pending = IF run = "started" THEN @ \cup {nextAgent} ELSE @,
                 !.ev = CMEvent("run", nextAgent, run, FALSE, RunException(run) # "none")]
    /\ UNCHANGED <<sessions, active_containers, tasks, sweep, shutdown, fresh,
                   sandboxes, response, ext>>

\* create_agent_container from the await of _wait_for_ready on
CMReady(a, ready) ==
    LET r == create_agent_container(active_containers, a, ready) IN
    /\ a \in cm.pending
    /\ active_containers' = r.active
    /\ cm' = [cm EXCEPT
                 !.pending = @ \ {a},
                 !.ev = CMEvent("create", a, ready, a \in active_containers, r.exc # "none")]
    /\ UNCHANGED <<sessions, nextAgent, tasks, sweep, shutdown, fresh, sandboxes,
                   response, ext>>

\* stop_container(agent_id), for any agent id handed out so far
CMStop(a, backend) ==
    LET r == stop_container(active_containers, a, backend) IN
    /\ a < nextAgent
    /\ active_containers' = r.active
    /\ cm' = [cm EXCEPT
                 !.stopped = IF r.attempted THEN @ \cup {a} ELSE @,
                 !.ev = CMEvent("stop", a, backend, a \in active_containers, r.raised)]
    /\ UNCHANGED <<sessions, nextAgent, tasks, sweep, shutdown, fresh, sandboxes,
                   response, ext>>

\* ------------------------------------------- POST /launch with mcp_env
\* Agent configurations: the MCP servers each declares, with the environment
\* keys of each server's env block
McpServers == {"github", "slack"}

EnvKeys == {"GITHUB_TOKEN", "SLACK_TOKEN", "LD_PRELOAD"}

ConfigIds == {"with-github", "github-no-env", "plain"}

\* the (server, key) pairs a configuration declares: "github-no-env" has the
\* github server without an env block, "plain" has no MCP server
mcp_servers(cfg) ==
    IF cfg = "with-github" THEN {[server |-> "github", key |-> "GITHUB_TOKEN"]}
    ELSE {}

\* LaunchRequest.mcp_env: server name -> {key: value}, as (server, key) pairs
McpEnvs == SUBSET {[server |-> "github", key |-> "GITHUB_TOKEN"],
                   [server |-> "github", key |-> "LD_PRELOAD"],
                   [server |-> "slack", key |-> "SLACK_TOKEN"]}

\* a check of the server names only
authorized_server_only(cfg, mcp_env) ==
    \A p \in mcp_env : p.server \in {q.server : q \in mcp_servers(cfg)}

\* every override names a server of the configuration and a key that server
\* declares; a server that is absent or declares no keys accepts none
authorized(cfg, mcp_env) == mcp_env \subseteq mcp_servers(cfg)

BaseEnv == {"AGENT_ID", "ANTHROPIC_API_KEY", "AGENT_CONFIG_JSON"}

\* FlyProvider.create_container: env[env_key] = env_value for every key of
\* every server of config.mcp_env
merge_mcp_env(env, mcp_env) == env \cup {p.key : p \in mcp_env}

\* launch_agent -> create_session_from_config(..., mcp_env=request.mcp_env)
Launch(cfg, mcp_env) ==
    /\ IF authorized(cfg, mcp_env)
       THEN /\ sandboxes' = sandboxes \cup
                    {[cfg |-> cfg, mcp_env |-> mcp_env,
                      env |-> merge_mcp_env(BaseEnv, mcp_env)]}
            /\ response' = [cfg |-> cfg, mcp_env |-> mcp_env, exc |-> "none"]
       ELSE /\ response' = [cfg |-> cfg, mcp_env |-> mcp_env,
                            exc |-> "UnauthorizedCredentialKey"]
            /\ UNCHANGED sandboxes
    /\ UNCHANGED <<sessions, active_containers, nextAgent, tasks, sweep, shutdown,
                   fresh, cm, ext>>

\* ------------------------------------- providers (DockerProvider, FlyProvider)
Kinds == {"docker", "fly"}

\* polls of _wait_for_machine_state before its timeout (60 s at 1 s intervals)
MaxPolls == 2

\* what the backend does with a stop request: carries it out, cannot be
\* reached, fails the stop, fails the removal
StopFaults == {"none", "unreachable", "stop_fails", "remove_fails"}

\* NetworkSettings.Networks of a container after reload(): an empty map, a
\* first network with an empty IPAddress, a first network with an address
NetworkStates == {"empty", "no_address", "address"}

\* the create call in progress: polls made, whether 'started' was observed,
\* whether the address was asked for, what the health probe did; for Docker
\* the Networks map and the default IPAddress read (networks, dflt) and the
\* address chosen (addr)
NoCall == [pc |-> "idle", kind |-> "none", sid |-> NoSid, cid |-> NoAgent, polls |-> 0,
           started |-> FALSE, ip |-> FALSE, health |-> "none",
           networks |-> "unread", dflt |-> FALSE, addr |-> "none"]

NoProvEvent == [op |-> "none", kind |-> "none", sid |-> NoSid, cid |-> NoAgent,
                res |-> "none", existed |-> FALSE, again |-> FALSE, gone |-> FALSE,
                fault |-> "none",
                started |-> FALSE, ip |-> FALSE, health |-> "none",
                networks |-> "unread", dflt |-> FALSE, addr |-> "none"]

\* kind: the provider the process runs with (one instance, chosen by name)
\* backend: the containers / machines that exist at the backend
\* active: active_containers / active_machines, session id -> container id
\* stopped: container ids a stop_container call has been made with
\* gone: container ids a stop_container call has returned True for
NoProv == [kind |-> "none", backend |-> {},
           active |-> [sid \in SessionIds |-> NoAgent],
           stopped |-> {}, gone |-> {}, call |-> NoCall, ev |-> NoProvEvent]

\* a stop_container that reports a container the backend does not know as stopped
provider_stop_lenient(kind, exists, fault) ==
    IF fault = "unreachable" THEN [ret |-> FALSE, removed |-> FALSE, raised |-> FALSE]
    ELSE IF ~exists THEN [ret |-> TRUE, removed |-> FALSE, raised |-> FALSE]
    ELSE IF fault = "remove_fails" \/ (kind = "docker" /\ fault = "stop_fails")
    THEN [ret |-> FALSE, removed |-> FALSE, raised |-> FALSE]
    ELSE [ret |-> TRUE, removed |-> TRUE, raised |-> FALSE]

\* DockerProvider.stop_container / FlyProvider.stop_container: the value
\* returned and whether the container was removed.  Docker: containers.get
\* raises NotFound for an unknown id, any exception of get / stop / remove is
\* caught.  Fly: the answer to POST .../stop is not looked at, DELETE answers
\* 404 for an unknown machine, any other failure is caught.
provider_stop(kind, exists, fault) ==
    IF fault = "unreachable" THEN [ret |-> FALSE, removed |-> FALSE, raised |-> FALSE]
    ELSE IF ~exists THEN [ret |-> FALSE, removed |-> FALSE, raised |-> FALSE]
    ELSE IF fault = "remove_fails" \/ (kind = "docker" /\ fault = "stop_fails")
    THEN [ret |-> FALSE, removed |-> FALSE, raised |-> FALSE]
    ELSE [ret |-> TRUE, removed |-> TRUE, raised |-> FALSE]

\* for sid, info in active.items(): if info.container_id == container_id: del
Forget(active, cid) == [sid \in SessionIds |-> IF active[sid] = cid THEN NoAgent ELSE active[sid]]

ProvStop(cid, fault) ==
    LET kind == prov.kind
        exists == cid \in prov.backend
        r == provider_stop(kind, exists, fault)
    IN
    /\ kind \in Kinds
    /\ cid < nextAgent
    /\ prov' = [prov EXCEPT
                   !.backend = IF r.removed THEN @ \ {cid} ELSE @,
                   !.active = IF r.removed THEN Forget(@, cid) ELSE @,
                   !.stopped = @ \cup {cid},
                   !.gone = IF r.ret THEN @ \cup {cid} ELSE @,
                   !.ev = [NoProvEvent EXCEPT
                              !.op = "stop", !.kind = kind, !.cid = cid,
                              !.res = IF r.raised THEN "raised"
                                      ELSE IF r.ret THEN "True" ELSE "False",
                              !.existed = exists, !.again = cid \in prov.stopped,
                              !.gone = cid \in prov.gone,
                              !.fault = fault]]
    /\ UNCHANGED <<sessions, active_containers, nextAgent, tasks, sweep, shutdown, fresh,
                   cm, sandboxes, response, stream, tr, chat, util>>

\* POST /apps/{app}/machines: 401 and 404 raise ValueError, other statuses
\* >= 400 and request errors raise RuntimeError
FlyPostOutcomes == {"created", "unauthorized", "app_not_found", "api_error", "network_error"}

CreateException(kind, o) ==
    IF kind = "docker" THEN RunException(o)
    ELSE IF o \in {"unauthorized", "app_not_found"} THEN "ValueError"
    ELSE IF o \in {"api_error", "network_error"} THEN "RuntimeError" ELSE "none"

CreateOutcomes(kind) == IF kind = "docker" THEN RunOutcomes ELSE FlyPostOutcomes

\* the create call returns or raises: the call as it ended
ProvEnd(call, res) ==
    [NoProvEvent EXCEPT !.op = "create", !.kind = call.kind, !.sid = call.sid,
                        !.cid = call.cid, !.res = res, !.started = call.started,
                        !.ip = call.ip, !.health = call.health,
                        !.networks = call.networks, !.dflt = call.dflt,
                        !.addr = call.addr]

\* create_container up to its first await after the container / machine exists
ProvCreateCall(kind, sid, o) ==
    LET exc == CreateException(kind, o)
        call == [NoCall EXCEPT !.pc = IF kind = "docker" THEN "reload" ELSE "wait_state",
                               !.kind = kind, !.sid = sid, !.cid = nextAgent]
    IN
    /\ prov.kind \in {"none", kind}
    /\ prov.call.pc = "idle"
    /\ TakeAgentId(exc = "none")
    /\ prov' = IF exc = "none"
               THEN [prov EXCEPT !.kind = kind, !.backend = @ \cup {nextAgent},
                                 !.call = call]
               ELSE [prov EXCEPT !.kind = kind,
                                 !.ev = ProvEnd([NoCall EXCEPT !.kind = kind, !.sid = sid],
                                                exc)]
    /\ UNCHANGED <<sessions, active_containers, tasks, sweep, shutdown, fresh,
                   cm, sandboxes, response, stream, tr, chat, util>>

\* what container.reload() / _get_machine_info answers
InfoOutcomes == {"ip", "no_ip", "error"}

\* DockerProvider: container.reload() may raise APIError; FlyProvider:
\* _get_machine_info raises HTTPStatusError; no address raises RuntimeError
InfoException(kind, o) ==
    IF o = "no_ip" THEN "RuntimeError"
    ELSE IF o = "error" THEN (IF kind = "docker" THEN "RuntimeError" ELSE "HTTPStatusError")
    ELSE "none"

\* container.reload() returns or raises APIError
ReloadOutcomes == {"reloaded", "error"}

\* networks = attrs["NetworkSettings"]["Networks"]; the IPAddress of its first
\* entry if the map is not empty, else attrs["NetworkSettings"]["IPAddress"]:
\* which address container_ip is ("none": an empty string)
container_ip(networks, dflt) ==
    IF networks # "empty"
    THEN (IF networks = "address" THEN "network" ELSE "none")
    ELSE (IF dflt THEN "default" ELSE "none")

\* DockerProvider.create_container: sleep, container.reload(), the address
ProvDockerReload(o, networks, dflt) ==
    LET c == prov.call
        addr == container_ip(networks, dflt)
        read == [c EXCEPT !.ip = TRUE, !.networks = networks, !.dflt = dflt, !.addr = addr]
    IN
    /\ c.pc = "reload"
    /\ o = "error" => networks = "empty" /\ ~dflt
    /\ prov' = IF o = "error"
               THEN [prov EXCEPT !.call = NoCall,
                                 !.ev = ProvEnd([c EXCEPT !.ip = TRUE],
                                                InfoException("docker", "error"))]
               ELSE IF addr = "none"
               THEN [prov EXCEPT !.call = NoCall,
                                 !.ev = ProvEnd(read, InfoException("docker", "no_ip"))]
               ELSE [prov EXCEPT !.call = [read EXCEPT !.pc = "health"]]
    /\ UNCHANGED <<sessions, active_containers, nextAgent, tasks, sweep, shutdown, fresh,
                   cm, sandboxes, response, stream, tr, chat, util>>

\* what one poll of the machine state sees
PollOutcomes == {"started", "created", "error", "not_found"}

\* a wait that gives up silently at its timeout
_wait_for_machine_state_lenient(polls, o) ==
    IF polls >= MaxPolls THEN [pc |-> "info", polls |-> polls, started |-> FALSE, exc |-> "none"]
    ELSE IF o = "started"
    THEN [pc |-> "info", polls |-> polls, started |-> TRUE, exc |-> "none"]
    ELSE IF o = "not_found"
    THEN [pc |-> "idle", polls |-> polls, started |-> FALSE, exc |-> "HTTPStatusError"]
    ELSE [pc |-> "wait_state", polls |-> polls + 1, started |-> FALSE, exc |-> "none"]

\* FlyProvider._wait_for_machine_state: one turn of the loop, or the
\* TimeoutError after the last
_wait_for_machine_state(polls, o) ==
    IF polls >= MaxPolls
    THEN [pc |-> "idle", polls |-> polls, started |-> FALSE, exc |-> "TimeoutError"]
    ELSE IF o = "started"
    THEN [pc |-> "info", polls |-> polls, started |-> TRUE, exc |-> "none"]
    ELSE IF o = "not_found"
    THEN [pc |-> "idle", polls |-> polls, started |-> FALSE, exc |-> "HTTPStatusError"]
    ELSE [pc |-> "wait_state", polls |-> polls + 1, started |-> FALSE, exc |-> "none"]

ProvFlyPoll(o) ==
    LET c == prov.call
        r == _wait_for_machine_state(c.polls, o)
    IN
    /\ c.pc = "wait_state"
    /\ prov' = IF r.exc = "none"
               THEN [prov EXCEPT !.call = [c EXCEPT !.pc = r.pc, !.polls = r.polls,
                                                    !.started = r.started]]
               ELSE [prov EXCEPT !.call = NoCall, !.ev = ProvEnd(c, r.exc)]
    /\ UNCHANGED <<sessions, active_containers, nextAgent, tasks, sweep, shutdown, fresh,
                   cm, sandboxes, response, stream, tr, chat, util>>

\* FlyProvider.create_container: _get_machine_info, private_ip
ProvFlyInfo(o) ==
    LET c == prov.call
        exc == InfoException("fly", o)
    IN
    /\ c.pc = "info"
    /\ prov' = IF exc = "none"
               THEN [prov EXCEPT !.call = [c EXCEPT !.pc = "health", !.ip = TRUE]]
               ELSE [prov EXCEPT !.call = NoCall,
                                 !.ev = ProvEnd([c EXCEPT !.ip = TRUE], exc)]
    /\ UNCHANGED <<sessions, active_containers, nextAgent, tasks, sweep, shutdown, fresh,
                   cm, sandboxes, response, stream, tr, chat, util>>

\* _wait_for_health returns or raises TimeoutError
HealthOutcomes == {"healthy", "timeout"}

\* a create_container that lets the health probe's TimeoutError through
create_after_health_strict(health) == IF health = "timeout" THEN "TimeoutError" ELSE "none"

\* create_container: try: await self._wait_for_health(...) except TimeoutError: warn
create_after_health(health) == "none"

\* create_container from the health probe to its return
ProvHealth(o) ==
    LET c == [prov.call EXCEPT !.health = o]
        exc == create_after_health(o)
    IN
    /\ prov.call.pc = "health"
    /\ prov' = IF exc = "none"
               THEN [prov EXCEPT !.active[c.sid] = c.cid,
                                 !.call = NoCall, !.ev = ProvEnd(c, "running")]
               ELSE [prov EXCEPT !.call = NoCall, !.ev = ProvEnd(c, exc)]
    /\ UNCHANGED <<sessions, active_containers, nextAgent, tasks, sweep, shutdown, fresh,
                   cm, sandboxes, response, stream, tr, chat, util>>

\* ------------------------------------------------------- query streams
\* the producers of a raw event stream
Producers == {"docker", "fly", "agent"}

\* events a stream is followed for before it is cut off
MaxEvents == 3

\* what the sandbox sends next: an event of some type, data that is not JSON,
\* a line that is not a "data: " line
EventTypes == {"message", "complete", "error"}

Lines == EventTypes \cup {"not_json", "no_data"}

\* failures of the connection: HTTP status error, request (connection) error,
\* anything else
Failures == {"HTTPStatusError", "RequestError", "Exception"}

\* a raw event: its type, and who made it (the sandbox, or the stream itself
\* out of a failure)
Event(type, by) == [type |-> type, by |-> by]

Terminal(e) == e.type \in {"complete", "error"}

NoStream == [pc |-> "idle", src |-> "none", out |-> <<>>, fail |-> "none"]

\* an execute_query whose except clauses miss the unexpected exception
on_failure_narrow(st, exc) ==
    IF exc = "Exception" THEN [st EXCEPT !.pc = "raised", !.fail = exc]
    ELSE [st EXCEPT !.pc = "ended", !.fail = exc,
                    !.out = Append(@, Event("error", st.src))]

\* except HTTPStatusError / RequestError / Exception: yield {"type": "error", ...}
\* and the generator ends (AgentContainer.query: except Exception)
on_failure(st, exc) ==
    [st EXCEPT !.pc = "ended", !.fail = exc, !.out = Append(@, Event("error", st.src))]

\* one turn of the read loop.  execute_query: lines without "data: " are
\* skipped, data that is not JSON is logged and skipped, every parsed message
\* is yielded.  AgentContainer.query: json.loads of every frame (a failure
\* goes to except Exception), yield, break after a complete or error event.
on_line(st, line) ==
    IF st.src = "agent"
    THEN IF line = "not_json" THEN on_failure(st, "Exception")
         ELSE IF line \in EventTypes
         THEN [st EXCEPT !.out = Append(@, Event(line, "sandbox")),
                         !.pc = IF line \in {"complete", "error"} THEN "ended" ELSE @]
         ELSE st
    ELSE IF line \in EventTypes
    THEN [st EXCEPT !.out = Append(@, Event(line, "sandbox"))]
    ELSE st

StreamStep(st) ==
    /\ stream' = st
    /\ UNCHANGED <<sessions, active_containers, nextAgent, tasks, sweep, shutdown, fresh,
                   cm, sandboxes, response, prov, tr, chat, util>>

\* the consumer starts iterating: the request is sent
QueryStart(src) ==
    /\ stream.pc \in {"idle", "ended"}
    /\ StreamStep([NoStream EXCEPT !.pc = "connecting", !.src = src])

\* the response arrives with a success status
QueryConnect ==
    /\ stream.pc = "connecting"
    /\ StreamStep([stream EXCEPT !.pc = "open"])

\* the sandbox sends a line (a frame, for the websocket of AgentContainer)
QueryLine(line) ==
    /\ stream.pc = "open"
    /\ Len(stream.out) < MaxEvents
    /\ stream.src = "agent" => line # "no_data"
    /\ StreamStep(on_line(stream, line))

\* the connection fails: at connect time or in the middle of the stream
QueryFail(exc) ==
    /\ stream.pc \in {"connecting", "open"}
    /\ stream.src = "agent" => exc = "Exception"
    /\ StreamStep(on_failure(stream, exc))

\* the sandbox closes the stream
QueryEof ==
    /\ stream.pc = "open"
    /\ StreamStep([stream EXCEPT !.pc = "ended"])

\* ---------------------------------------------------------- translator
\* stream_to_openai_sse ("openai") and stream_claude_events ("claude")
Modes == {"openai", "claude"}

\* raw events by what the translators look at: a message with content, with
\* empty content, a tool / thinking message, a todo update, any other message
\* (metadata, system), a message whose data is null or not a map, complete,
\* error, an event of an unknown type
RawKinds == {"content", "empty", "tool", "todo", "meta", "null_data",
             "complete", "error", "other"}

Messages == {"content", "empty", "tool", "todo", "meta"}

\* one yielded SSE string: what it is, the raw event (by position) it was
\* produced for, its finish_reason
Out(chunk, of, finish) == [chunk |-> chunk, of |-> of, finish |-> finish]

Done(of) == Out("DONE", of, "none")

NoTr == [pc |-> "idle", mode |-> "none", in |-> <<>>, pending |-> <<>>, out |-> <<>>,
         ended |-> FALSE, ignored |-> 0]

\* a stream_to_openai_sse that ends an error like a completion
openai_chunks_error_as_stop(e, n) ==
    IF e = "content" THEN <<Out("delta", n, "none")>>
    ELSE IF e = "tool" THEN <<Out("data-tool", n, "none")>>
    ELSE IF e = "todo" THEN <<Out("data-todo", n, "none")>>
    ELSE IF e \in {"complete", "error"} THEN <<Out("final", n, "stop"), Done(n)>>
    ELSE <<>>

\* a stream_to_openai_sse without the "if content:" test
openai_chunks_empty_delta(e, n) ==
    IF e \in {"content", "empty"} THEN <<Out("delta", n, "none")>>
    ELSE IF e = "tool" THEN <<Out("data-tool", n, "none")>>
    ELSE IF e = "todo" THEN <<Out("data-todo", n, "none")>>
    ELSE IF e = "complete" THEN <<Out("final", n, "stop"), Done(n)>>
    ELSE IF e = "error" THEN <<Out("error-delta", n, "error"), Done(n)>>
    ELSE <<>>

\* stream_to_openai_sse: what is yielded for one raw event
openai_chunks(e, n) ==
    IF e = "content" THEN <<Out("delta", n, "none")>>
    ELSE IF e = "tool" THEN <<Out("data-tool", n, "none")>>
    ELSE IF e = "todo" THEN <<Out("data-todo", n, "none")>>
    ELSE IF e = "complete" THEN <<Out("final", n, "stop"), Done(n)>>
    ELSE IF e = "error" THEN <<Out("error-delta", n, "error"), Done(n)>>
    ELSE <<>>

\* a stream_claude_events that filters like stream_to_openai_sse
claude_events_filtered(e, n) ==
    IF e \in Messages \ {"meta"} THEN <<Out("event", n, "none")>>
    ELSE IF e = "complete" THEN <<Out("complete", n, "none"), Done(n)>>
    ELSE IF e = "error" THEN <<Out("error", n, "none"), Done(n)>>
    ELSE <<>>

\* stream_claude_events: what is yielded for one raw event
claude_events(e, n) ==
    IF e \in Messages THEN <<Out("event", n, "none")>>
    ELSE IF e = "complete" THEN <<Out("complete", n, "none"), Done(n)>>
    ELSE IF e = "error" THEN <<Out("error", n, "none"), Done(n)>>
    ELSE <<>>

\* data = message.get("data", {}); data.get("type"): AttributeError when the
\* data field is there and is null or not a map
RaisesOn(e) == e = "null_data"

\* a translator without the break statements
ends_stream_never(e) == FALSE

\* break after a complete or error event
ends_stream(e) == e \in {"complete", "error"}

\* a translator that collects its output instead of yielding it at once
may_consume_batching(pending) == TRUE

\* a generator is suspended at each yield: it takes the next raw event only
\* after the consumer has taken everything yielded for the previous one
may_consume(pending) == pending = <<>>

\* the translator takes raw event e from its source
translate(st, e) ==
    LET n == Len(st.in) + 1 IN
    IF RaisesOn(e) THEN [st EXCEPT !.pc = "raised", !.in = Append(@, e)]
    ELSE [st EXCEPT !.in = Append(@, e),
                    !.pending = @ \o (IF st.mode = "openai" THEN openai_chunks(e, n)
                                      ELSE claude_events(e, n)),
                    !.ended = ends_stream(e),
                    !.pc = IF ends_stream(e) /\ st.pending = <<>>
                              /\ (IF st.mode = "openai" THEN openai_chunks(e, n)
                                  ELSE claude_events(e, n)) = <<>>
                           THEN "done" ELSE @]

TrStep(st) ==
    /\ tr' = st
    /\ UNCHANGED <<sessions, active_containers, nextAgent, tasks, sweep, shutdown, fresh,
                   cm, sandboxes, response, prov, stream, chat, util>>

\* the consumer starts iterating a translator
TrStart(mode) ==
    /\ tr.pc \in {"idle", "done", "raised"}
    /\ TrStep([NoTr EXCEPT !.pc = "running", !.mode = mode])

\* the source yields a raw event
TrFeed(e) ==
    /\ tr.pc = "running" /\ ~tr.ended
    /\ may_consume(tr.pending)
    /\ Len(tr.in) < MaxEvents
    /\ TrStep(translate(tr, e))

\* the consumer takes the next yielded string
TrYield ==
    /\ tr.pc = "running" /\ tr.pending # <<>>
    /\ TrStep([tr EXCEPT !.out = Append(@, Head(tr.pending)),
                         !.pending = Tail(@),
                         !.pc = IF tr.ended /\ Tail(tr.pending) = <<>> THEN "done" ELSE @])

\* the source iterator raises: there is no try around the async for
TrSourceRaise ==
    /\ tr.pc = "running" /\ ~tr.ended /\ tr.pending = <<>>
    /\ TrStep([tr EXCEPT !.pc = "raised"])

\* the source iterator ends
TrSourceEnd ==
    /\ tr.pc = "running" /\ ~tr.ended /\ tr.pending = <<>>
    /\ TrStep([tr EXCEPT !.pc = "done"])

\* the source has another raw event after the translator has returned
TrLate(e) ==
    /\ tr.pc = "done" /\ tr.ended
    /\ Len(tr.in) + tr.ignored < MaxEvents
    /\ TrStep([tr EXCEPT !.ignored = @ + 1])

\* -------------------------------------------------- POST /chat (agent_chat)
\* pc: the request (idle, answered with an HTTP error, streaming, complete,
\*     terminated after the caller went away)
\* connected: the caller is still there
\* link: the connection AgentContainer.query holds to the sandbox
\* agent: the agent process in the sandbox
\* made: the events the sandbox has sent; sent: how many the caller was given
\* signal: the interrupt / stop signals issued to the agent process, each with
\*     who issued it
NoChat == [pc |-> "idle", status |-> 0, connected |-> FALSE, link |-> "none",
           agent |-> "idle", made |-> <<>>, sent |-> 0, signal |-> {}]

\* agent_chat up to the StreamingResponse: 401 without a bearer key, 400
\* without a session id or a user message, 404 for an unknown session
chat_status(bearer, session_id, user_message, found) ==
    IF ~bearer THEN 401
    ELSE IF ~session_id THEN 400
    ELSE IF ~user_message THEN 400
    ELSE IF ~found THEN 404 ELSE 200

ChatStep(c) ==
    /\ chat' = c
    /\ UNCHANGED <<sessions, active_containers, nextAgent, tasks, sweep, shutdown, fresh,
                   cm, sandboxes, response, prov, stream, tr, util>>

ChatRequest(bearer, session_id, user_message, found) ==
    LET st == chat_status(bearer, session_id, user_message, found) IN
    /\ chat.pc # "streaming"
    /\ ChatStep(IF st = 200
                THEN [NoChat EXCEPT !.pc = "streaming", !.status = st, !.connected = TRUE,
                                    !.link = "open", !.agent = "working"]
                ELSE [NoChat EXCEPT !.pc = "error", !.status = st])

\* what the agent process produces next
SdkMessages == {"content", "tool", "result"}

\* agent_server.process_query_stream, one message of the SDK: when the
\* connection from the orchestrator is gone it interrupts the SDK and stops,
\* or its own response was already cancelled; otherwise it sends the event
SandboxMessage(m, cancelled) ==
    /\ chat.agent = "working"
    /\ Len(chat.made) < MaxEvents
    /\ ChatStep(IF chat.link = "closed"
                THEN IF cancelled THEN [chat EXCEPT !.agent = "abandoned"]
                     ELSE [chat EXCEPT !.agent = "interrupted",
                                       !.signal = @ \cup {"sandbox"}]
                ELSE [chat EXCEPT !.made = Append(@, m),
                                  !.agent = IF m = "result" THEN "finished" ELSE @])

\* stream_claude_events(agent_container.query(...)) gives the caller the next
\* event; after the complete event the stream ends and the connection closes
ChatForward ==
    /\ chat.pc = "streaming" /\ chat.connected
    /\ chat.sent < Len(chat.made)
    /\ ChatStep([chat EXCEPT !.sent = @ + 1,
                             !.pc = IF chat.made[chat.sent + 1] = "result" THEN "complete"
                                    ELSE @,
                             !.link = IF chat.made[chat.sent + 1] = "result" THEN "closed"
                                      ELSE @])

\* the caller goes away in the middle of the stream
ChatDisconnect ==
    /\ chat.pc = "streaming" /\ chat.connected
    /\ ChatStep([chat EXCEPT !.connected = FALSE])

\* the response of a caller that is gone is torn down: the generators are
\* closed and AgentContainer.query leaves its connection; agent_chat has no
\* handler that runs at this point, so nothing is signalled
ChatTerminate ==
    /\ chat.pc = "streaming" /\ ~chat.connected
    /\ ChatStep([chat EXCEPT !.pc = "terminated", !.link = "closed"])

\* ------------------------------------------- FlyProvider._parse_memory_limit
\* A memory string is a sequence of tokens: a run of digits (with its value),
\* the literal inf, or one other character.
Num(n) == [c |-> "#", n |-> n]

Ch(c) == [c |-> c, n |-> 0]

\* the digit runs tried
Numbers == {0, 1, 4, 512, 2048, 1000000, 1048576}

\* characters: the unit letters, an upper-case one, a letter that is no unit,
\* a blank; "inf" stands for the three letters that float() reads as infinity
Letters == {"g", "m", "b", "k", "G", "x", " ", "inf"}

Tokens == {Num(n) : n \in Numbers} \cup {Ch(c) : c \in Letters}

\* longest memory string tried, in tokens
MaxLen == 3

\* a run of digits is one token: no two of them are adjacent
MemoryStrings ==
    {s \in UNION {[1..n -> Tokens] : n \in 0..MaxLen} :
        \A i \in 1..(Len(s) - 1) : ~(s[i].c = "#" /\ s[i + 1].c = "#")}

\* str.lower()
lower(s) == [i \in DOMAIN s |-> IF s[i] = Ch("G") THEN Ch("g") ELSE s[i]]

\* str.rstrip(chars): drops every trailing character that is in chars
RECURSIVE rstrip(_, _)
rstrip(s, chars) ==
    IF s # <<>> /\ s[Len(s)] \in chars THEN rstrip(SubSeq(s, 1, Len(s) - 1), chars) ELSE s

RECURSIVE lstrip(_, _)
lstrip(s, chars) ==
    IF s # <<>> /\ s[1] \in chars THEN lstrip(Tail(s), chars) ELSE s

\* str.strip(): drops the blanks at both ends
strip(s) == lstrip(rstrip(s, {Ch(" ")}), {Ch(" ")})

\* str.endswith(suffix)
endswith(s, suffix) ==
    /\ Len(s) >= Len(suffix)
    /\ SubSeq(s, Len(s) - Len(suffix) + 1, Len(s)) = suffix

\* float(s): blanks around the number are accepted; anything that is not one
\* number raises ValueError
float(s) ==
    LET t == strip(s) IN
    IF Len(t) = 1 /\ t[1].c = "#" THEN [exc |-> "none", inf |-> FALSE, v |-> t[1].n]
    ELSE IF t = <<Ch("inf")>> THEN [exc |-> "none", inf |-> TRUE, v |-> 0]
    ELSE [exc |-> "ValueError", inf |-> FALSE, v |-> 0]

Raise(exc) == [ret |-> 0, exc |-> exc]

\* int(value * mul / div) of a float; int() of infinity raises OverflowError
int(f, mul, div) ==
    IF f.exc # "none" THEN Raise(f.exc)
    ELSE IF f.inf THEN Raise("OverflowError")
    ELSE [ret |-> (f.v * mul) \div div, exc |-> "none"]

\* a parser that takes a bare number as bytes of a decimal megabyte
bytes_to_mb_decimal(f) == int(f, 1, 1000000)

\* int(float(memory_limit) / (1024 * 1024)); a ValueError is raised again as
\* the ValueError with the format message
bytes_to_mb(f) == int(f, 1, 1024 * 1024)

_parse_memory_limit(memory_limit) ==
    LET s == strip(lower(memory_limit)) IN
    IF endswith(s, <<Ch("g"), Ch("b")>>) \/ endswith(s, <<Ch("g")>>)
    THEN int(float(rstrip(s, {Ch("g"), Ch("b")})), 1024, 1)
    ELSE IF endswith(s, <<Ch("m"), Ch("b")>>) \/ endswith(s, <<Ch("m")>>)
    THEN int(float(rstrip(s, {Ch("m"), Ch("b")})), 1, 1)
    ELSE IF endswith(s, <<Ch("k"), Ch("b")>>) \/ endswith(s, <<Ch("k")>>)
    THEN int(float(rstrip(s, {Ch("k"), Ch("b")})), 1, 1024)
    ELSE bytes_to_mb(float(s))

NoMem == [pc |-> "idle", arg |-> <<>>, ret |-> 0, exc |-> "none"]

MemStep(m) ==
    /\ mem' = m
    /\ UNCHANGED <<sessions, active_containers, nextAgent, tasks, sweep, shutdown, fresh,
                   cm, sandboxes, response, prov, stream, tr, chat, factory, upload, replace, ctask, sbx, iso, ovr>>

\* create_container converts config.memory_limit
ParseMemory(memory_limit) ==
    LET r == _parse_memory_limit(memory_limit) IN
    /\ mem.pc = "idle"
    /\ MemStep([pc |-> "done", arg |-> memory_limit, ret |-> r.ret, exc |-> r.exc])

\* the caller goes on with the value or the exception
MemReturn ==
    /\ mem.pc = "done"
    /\ MemStep(NoMem)

\* ------------------------------------------------------- ProviderFactory
\* platform names: the two registered at import, one that is not
ProviderNames == {"docker", "fly_machines", "nonexistent"}

\* classes that implement ContainerProvider, and one that does not
ProviderClasses == {"DockerProvider", "FlyProvider", "TestProvider"}

NotAProvider == "NotAProvider"

NoClass == "none"

\* provider instances constructed in one process
MaxBuilt == 2

NoFactoryEvent == [op |-> "none", platform |-> "none", res |-> "none", known |-> FALSE]

\* providers/__init__.py registers docker and fly_machines at import
NoFactory ==
    [providers |-> [n \in ProviderNames |->
                       IF n = "docker" THEN "DockerProvider"
                       ELSE IF n = "fly_machines" THEN "FlyProvider" ELSE NoClass],
     built |-> <<>>,
     ev |-> NoFactoryEvent]

FactoryStep(f) ==
    /\ factory' = f
    /\ UNCHANGED <<sessions, active_containers, nextAgent, tasks, sweep, shutdown, fresh,
                   cm, sandboxes, response, prov, stream, tr, chat, mem, upload, replace, ctask, sbx, iso, ovr>>

\* ProviderFactory.register_provider
register_provider(name, provider_class) ==
    IF provider_class = NotAProvider
    THEN FactoryStep([factory EXCEPT
             !.ev = [op |-> "register", platform |-> name, res |-> "TypeError",
                     known |-> factory.providers[name] # NoClass]])
    ELSE FactoryStep([factory EXCEPT
             !.providers[name] = provider_class,
             !.ev = [op |-> "register", platform |-> name, res |-> "None",
                     known |-> factory.providers[name] # NoClass]])

\* a factory that falls back to the Docker provider for an unknown name
provider_class_default(providers, platform) ==
    IF providers[platform] = NoClass THEN "DockerProvider" ELSE providers[platform]

\* if platform not in cls._providers: raise ValueError;
\* provider_class = cls._providers[platform]
provider_class_of(providers, platform) == providers[platform]

\* ProviderFactory.create_provider; the constructor itself may raise
create_provider(platform, ctor_raises) ==
    LET cls == provider_class_of(factory.providers, platform)
        known == factory.providers[platform] # NoClass
    IN
    /\ Len(factory.built) < MaxBuilt
    /\ FactoryStep(
         IF cls = NoClass
         THEN [factory EXCEPT !.ev = [op |-> "create", platform |-> platform,
                                      res |-> "ValueError", known |-> known]]
         ELSE IF ctor_raises
         THEN [factory EXCEPT !.ev = [op |-> "create", platform |-> platform,
                                      res |-> "raised", known |-> known]]
         ELSE [factory EXCEPT !.built = Append(@, cls),
                              !.ev = [op |-> "create", platform |-> platform,
                                      res |-> cls, known |-> known]])

\* ProviderFactory.is_provider_available
is_provider_available(platform) ==
    LET known == factory.providers[platform] # NoClass IN
    /\ platform \in DOMAIN factory.providers
    /\ FactoryStep([factory EXCEPT
           !.ev = [op |-> "available", platform |-> platform,
                   res |-> IF known THEN "True" ELSE "False", known |-> known]])

\* ------------------------------------------------------------ upload_files
\* safe names of uploaded files
FileNames == {"a.txt", "b.txt", "c.txt"}

\* files in one upload request
MaxFiles == 2

\* the files argument: distinct names in request order
FileLists ==
    {fs \in UNION {[1..n -> FileNames] : n \in 1..MaxFiles} :
        \A i, j \in DOMAIN fs : i # j => fs[i] # fs[j]}

Names(files) == {files[i] : i \in DOMAIN files}

\* what can go wrong outside the provider: the container / machine is not
\* known, the exec / request fails, the write fails
UploadFaults == {"none", "not_found", "check_fails", "write_fails"}

NoUploadEvent == [kind |-> "none", files |-> <<>>, overwrite |-> FALSE, fault |-> "none",
                  before |-> {}, sandbox |-> 0, status |-> 0, wrote |-> {}]

\* fs: the names that exist in the target directory of the container
NoUpload == [fs |-> {}, ev |-> NoUploadEvent]

UploadStep(u) ==
    /\ upload' = u
    /\ UNCHANGED <<sessions, active_containers, nextAgent, tasks, sweep, shutdown, fresh,
                   cm, sandboxes, response, prov, stream, tr, chat, mem, factory, replace, ctask, sbx, iso, ovr>>

\* a check that looks at the first file only
exists_first(files, fs) == files[1] \in fs

\* for file_info in files: exec_run(["test", "-f", file_path]).exit_code == 0
exists_any(files, fs) == \E i \in DOMAIN files : files[i] \in fs

\* DockerProvider.upload_files: the HTTP status it ends with (200: returns the
\* names) and the names put into the container
docker_upload(files, overwrite, fault, fs) ==
    IF fault = "not_found" THEN [status |-> 404, wrote |-> {}]
    ELSE IF ~overwrite /\ fault = "check_fails" THEN [status |-> 500, wrote |-> {}]
    ELSE IF ~overwrite /\ exists_any(files, fs) THEN [status |-> 409, wrote |-> {}]
    ELSE IF fault = "write_fails" THEN [status |-> 500, wrote |-> {}]
    ELSE [status |-> 200, wrote |-> Names(files)]

\* the sandbox's POST /upload: the files are checked and written one by one,
\* in request order, up to the first one that exists
RECURSIVE sandbox_upload(_, _, _, _)
sandbox_upload(files, overwrite, fault, fs) ==
    IF files = <<>> THEN [status |-> 200, wrote |-> {}]
    ELSE IF ~overwrite /\ Head(files) \in fs THEN [status |-> 409, wrote |-> {}]
    ELSE IF fault = "write_fails" THEN [status |-> 500, wrote |-> {}]
    ELSE LET rest == sandbox_upload(Tail(files), overwrite, fault, fs \cup {Head(files)})
         IN [status |-> rest.status, wrote |-> rest.wrote \cup {Head(files)}]

\* FlyProvider.upload_files, the status it ends with for the answer of the
\* sandbox: the HTTPException(409) is raised inside the try, whose except
\* Exception clause turns it into HTTPException(500); other statuses >= 400
\* come from raise_for_status through except HTTPStatusError
fly_status(sandbox) == IF sandbox = 409 THEN 500 ELSE sandbox

DockerUpload(files, overwrite, fault) ==
    LET r == docker_upload(files, overwrite, fault, upload.fs) IN
    /\ files \in FileLists
    /\ UploadStep([fs |-> upload.fs \cup r.wrote,
                   ev |-> [kind |-> "docker", files |-> files, overwrite |-> overwrite,
                           fault |-> fault, before |-> upload.fs, sandbox |-> 0,
                           status |-> r.status, wrote |-> r.wrote]])

FlyUpload(files, overwrite, fault) ==
    LET r == sandbox_upload(files, overwrite, fault, upload.fs)
        sent == fault \notin {"not_found", "check_fails"}
    IN
    /\ files \in FileLists
    /\ UploadStep([fs |-> IF sent THEN upload.fs \cup r.wrote ELSE upload.fs,
                   ev |-> [kind |-> "fly", files |-> files, overwrite |-> overwrite,
                           fault |-> fault, before |-> upload.fs,
                           sandbox |-> IF sent THEN r.status ELSE 0,
                           status |-> IF fault = "not_found" THEN 404
                                      ELSE IF fault = "check_fails" THEN 500
                                      ELSE fly_status(r.status),
                           wrote |-> IF sent THEN r.wrote ELSE {}]])

\* ------------------------------------ start_cleanup_task, stop_cleanup_task
\* handle: self._cleanup_task is not None
\* live: cleanup_loop tasks that have not finished
\* cancel: cancel() was called on the task and the CancelledError has not
\*     been delivered yet
\* waiting: a stop_cleanup_task call is suspended at "await self._cleanup_task"
\* started: the lifespan has run its startup part
\* ev: the last start_cleanup_task / stop_cleanup_task call that returned
NoTask == [handle |-> FALSE, live |-> 0, cancel |-> FALSE, waiting |-> FALSE,
           started |-> FALSE, ev |-> "none"]

\* a start_cleanup_task without the "already running" test
task_running_ignored(t) == FALSE

\* if self._cleanup_task is not None: return
task_running(t) == t.handle

\* a stop_cleanup_task that does not await the cancelled task
task_done_no_wait(t) == TRUE

\* await self._cleanup_task returns when the task has finished
task_done(t) == t.live = 0

\* start_cleanup_task: no await, the call runs to its return
start_cleanup_task(t) ==
    IF task_running(t) THEN [t EXCEPT !.ev = "already_running"]
    ELSE [t EXCEPT !.handle = TRUE, !.live = @ + 1, !.ev = "started"]

\* stop_cleanup_task up to its await: cancel() on the task
stop_cleanup_task(t) ==
    IF ~t.handle THEN [t EXCEPT !.ev = "no_task"]
    ELSE [t EXCEPT !.cancel = t.live > 0, !.waiting = TRUE]

\* the cleanup_loop tasks may take a step: one exists and no cancel is pending
\* (a task that cancel() was called on gets the CancelledError at its await)
MayRun == ctask.live > 0 /\ ~ctask.cancel

TaskStep(t, sw) ==
    /\ ctask' = t
    /\ sweep' = sw
    /\ UNCHANGED <<sessions, active_containers, nextAgent, tasks, shutdown, fresh,
                   cm, sandboxes, response, prov, stream, tr, chat, mem, factory, upload,
                   replace, sbx, iso, ovr>>

\* a caller (the lifespan, a test) calls start_cleanup_task; a task that is
\* created starts in asyncio.sleep
StartCleanupTask ==
    LET t == start_cleanup_task(ctask) IN
    /\ shutdown.pc = "up"
    /\ TaskStep(t, IF t.live > ctask.live THEN NoPass ELSE sweep)

\* stop_cleanup_task is called, by one caller at a time
StopCleanupCall ==
    /\ shutdown.pc = "up"
    /\ ~ctask.waiting
    /\ TaskStep(stop_cleanup_task(ctask), sweep)

\* except asyncio.CancelledError: break -- the task ends wherever it waited
TaskCancelled ==
    /\ ctask.cancel /\ ctask.live > 0
    /\ TaskStep([ctask EXCEPT !.cancel = FALSE, !.live = @ - 1],
                [NoPass EXCEPT !.pc = "cancelled"])

\* the await returns; self._cleanup_task = None
StopCleanupReturn ==
    /\ ctask.waiting
    /\ task_done(ctask)
    /\ shutdown.pc = "up"
    /\ TaskStep([ctask EXCEPT !.handle = FALSE, !.waiting = FALSE, !.ev = "stopped"], sweep)

\* the passes of the cleanup_loop task
TaskPass ==
    /\ MayRun
    /\ \/ SweepSelect
       \/ \E o \in StopOutcomes : SweepStop(o)
       \/ SweepSleep

\* lifespan startup: await session_manager.start_cleanup_task(interval_minutes=5)
LifespanStartup ==
    LET t == start_cleanup_task(ctask) IN
    /\ ~ctask.started
    /\ ~ctask.handle /\ ~ctask.waiting
    /\ shutdown.pc = "up"
    /\ TaskStep([t EXCEPT !.started = TRUE], NoPass)

\* lifespan shutdown: await session_manager.stop_cleanup_task(), to its await
LifespanStop ==
    /\ ctask.started
    /\ shutdown.pc = "up"
    /\ ~ctask.waiting
    /\ TaskStep(stop_cleanup_task(ctask), sweep)

\* stop_cleanup_task returns to the lifespan, which goes on to
\* cleanup_all_sessions
LifespanStopped ==
    /\ ctask.started
    /\ ctask.waiting
    /\ task_done(ctask)
    /\ shutdown.pc = "up"
    /\ ctask' = [ctask EXCEPT !.handle = FALSE, !.waiting = FALSE, !.ev = "stopped"]
    /\ shutdown' = [shutdown EXCEPT !.pc = "cancelled"]
    /\ UNCHANGED <<sessions, active_containers, nextAgent, tasks, sweep, fresh,
                   cm, sandboxes, response, prov, stream, tr, chat, mem, factory, upload,
                   replace, sbx, iso, ovr>>

\* --------------------------- agent_server.process_query_stream (sandbox)
\* messages the SDK client delivers
SdkKinds == {"AssistantMessage", "SystemMessage", "ResultMessage"}

\* what _format_message gives for a message: None, one event, a list of two
\* events, an exception
Formats == {"none", "one", "list", "raises"}

\* pc: idle, receiving (inside the async for), ended
\* gone: the client has closed the connection
\* seen: request.is_disconnected() has returned True
\* interrupts: the sdk_client.interrupt() calls made
\* out: the events yielded; count: message_count
NoQuery == [pc |-> "idle", gone |-> FALSE, seen |-> FALSE, interrupts |-> 0,
            out |-> <<>>, count |-> 0]

\* an interrupt call without a try of its own: its exception reaches the
\* outer except clause, which yields an error event
interrupt_unguarded(raises) == IF raises THEN <<"error">> ELSE <<>>

\* try: await self.sdk_client.interrupt() / except Exception: logger.error:
\* what the generator yields because of the call
interrupt(raises) == <<>>

\* events_to_send = formatted if isinstance(formatted, list) else [formatted]
events_to_send(fmt) ==
    IF fmt = "one" THEN <<"message">>
    ELSE IF fmt = "list" THEN <<"message", "message">>
    ELSE <<>>

\* one turn of the async for over receive_messages()
on_message(q, m, fmt, raises) ==
    IF q.gone
    THEN [q EXCEPT !.seen = TRUE, !.interrupts = @ + 1,
                   !.out = @ \o interrupt(raises), !.pc = "ended"]
    ELSE IF fmt = "raises"
    THEN [q EXCEPT !.count = @ + 1, !.out = Append(@, "error"), !.pc = "ended"]
    ELSE [q EXCEPT !.count = @ + 1,
                   !.out = @ \o events_to_send(fmt)
                             \o (IF m = "ResultMessage" THEN <<"complete">> ELSE <<>>),
                   !.pc = IF m = "ResultMessage" THEN "ended" ELSE @]

SbxStep(q) ==
    /\ sbx' = q
    /\ UNCHANGED <<sessions, active_containers, nextAgent, tasks, sweep, shutdown, fresh,
                   cm, sandboxes, response, prov, stream, tr, chat, mem, factory, upload,
                   replace, ctask, iso, ovr>>

\* POST /query: the generator starts; without an SDK client, or when
\* sdk_client.query raises, the except clause yields one error event
SbxQuery(ok) ==
    /\ sbx.pc \in {"idle", "ended"}
    /\ SbxStep(IF ok THEN [NoQuery EXCEPT !.pc = "receiving"]
               ELSE [NoQuery EXCEPT !.pc = "ended", !.out = <<"error">>])

\* the client closes the connection
SbxDisconnect ==
    /\ sbx.pc = "receiving" /\ ~sbx.gone
    /\ SbxStep([sbx EXCEPT !.gone = TRUE])

\* the SDK delivers a message
SbxMessage(m, fmt, raises) ==
    /\ sbx.pc = "receiving"
    /\ sbx.count < MaxEvents
    /\ SbxStep(on_message(sbx, m, fmt, raises))

\* receive_messages() raises: the except clause yields an error event
SbxSdkRaise ==
    /\ sbx.pc = "receiving"
    /\ SbxStep([sbx EXCEPT !.out = Append(@, "error"), !.pc = "ended"])

\* receive_messages() is exhausted
SbxSdkEnd ==
    /\ sbx.pc = "receiving"
    /\ SbxStep([sbx EXCEPT !.pc = "ended"])

\* ------------------------------- get_or_create_session, callers by API key
\* the API keys of two different users
ApiKeys == {"k1", "k2"}

NoIsoCall == [key |-> "none", conv |-> NoConv, agent |-> NoAgent, how |-> "none"]

\* sessions: SessionManager.sessions; owner: the api_key each container was
\* created with (create_agent_container(api_key=...)); next: the next agent
\* id; ev: the last call, with the container it returned
NoIso == [sessions |-> <<>>, owner |-> [a \in Agents |-> "none"], next |-> 1,
          ev |-> NoIsoCall]

IsoStep(st) ==
    /\ iso' = st
    /\ UNCHANGED <<sessions, active_containers, nextAgent, tasks, sweep, shutdown, fresh,
                   cm, sandboxes, response, prov, stream, tr, chat, mem, factory, upload,
                   replace, ctask, sbx, ovr>>

\* get_or_create_session(conversation_id, api_key) run to its return, the
\* creation succeeding
IsoCall(conv, key) ==
    LET sid == _generate_session_id(conv, key)
        r == get_or_create_session(iso.sessions, sid, iso.next, "started")
    IN
    /\ r.creates => iso.next <= MaxAgents
    /\ IsoStep(IF r.creates
               THEN [iso EXCEPT !.sessions = Put(r.sessions, sid, iso.next),
                                !.owner[iso.next] = key,
                                !.next = @ + 1,
                                !.ev = [key |-> key, conv |-> conv, agent |-> iso.next,
                                        how |-> "created"]]
               ELSE [iso EXCEPT !.sessions = r.sessions,
                                !.ev = [key |-> key, conv |-> conv, agent |-> r.task.agent,
                                        how |-> "reuse"]])

\* time passes for the sessions of the table
IsoTick ==
    /\ iso.sessions # <<>>
    /\ IsoStep([iso EXCEPT !.sessions = [i \in 1..Len(@) |-> Older(@[i])]])

\* ------------------------- create_session_from_config(provider=...), stops
\* conversation ids of the callers
OvrConvs == {"c1", "c2"}

\* sessions: SessionManager.sessions
\* global: active_containers of the module's container_manager
\* local: active_containers of the provider managers the calls have made
\* backend: the containers running; next: the next agent id
NoOvr == [sessions |-> <<>>, global |-> {}, local |-> {}, backend |-> {}, next |-> 1,
          ev |-> "none"]

\* ContainerManager(provider_name=provider).create_agent_container_from_config:
\* a manager of its own for the named backend, which starts the container and
\* enters it in its own live-container table
provider_manager_create(st, agent) ==
    [st EXCEPT !.local = @ \cup {agent}, !.backend = @ \cup {agent}]

\* container_manager.create_agent_container_from_config, the creation succeeding
global_manager_create(st, agent) ==
    [st EXCEPT !.global = @ \cup {agent}, !.backend = @ \cup {agent}]

\* try: await container_manager.stop_container(agent_id); del self.sessions[sid]
\* with the stop carried out by the backend
stop_and_delete(st, sid, agent) ==
    LET r == stop_container(st.global, agent, "ok") IN
    [st EXCEPT !.global = r.active,
               !.backend = IF r.attempted THEN @ \ {agent} ELSE @,
               !.sessions = StopAndDelete(@, sid, r)]

RECURSIVE stop_each(_, _)
\* for session_id, agent_container in items: stop and delete
stop_each(st, items) ==
    IF items = <<>> THEN st
    ELSE stop_each(stop_and_delete(st, Head(items).sid, Head(items).agent), Tail(items))

OvrStep(st) ==
    /\ ovr' = st
    /\ UNCHANGED <<sessions, active_containers, nextAgent, tasks, sweep, shutdown, fresh,
                   cm, sandboxes, response, prov, stream, tr, chat, mem, factory, upload,
                   replace, ctask, sbx, iso>>

\* create_session_from_config run to its return: an existing session is
\* cleaned up first, the container is created by a provider manager or by the
\* global one, the session is stored
OvrCreate(conv, provider) ==
    LET sid == "conv-" \o conv
        a == ovr.next
        pre == IF Has(ovr.sessions, sid)
               THEN stop_and_delete(ovr, sid, Get(ovr.sessions, sid)) ELSE ovr
        made == IF provider THEN provider_manager_create(pre, a)
                ELSE global_manager_create(pre, a)
    IN
    /\ ovr.next <= MaxAgents
    /\ OvrStep([made EXCEPT !.sessions = Put(@, sid, a), !.next = @ + 1,
                            !.ev = IF provider THEN "create_override" ELSE "create"])

\* cleanup_session(session_id)
OvrCleanup(sid) ==
    /\ Has(ovr.sessions, sid)
    /\ OvrStep([stop_and_delete(ovr, sid, Get(ovr.sessions, sid)) EXCEPT !.ev = "cleanup"])

\* one pass of cleanup_idle_sessions
OvrSweep ==
    /\ sessions_to_remove(ovr.sessions) # <<>>
    /\ OvrStep([stop_each(ovr, sessions_to_remove(ovr.sessions)) EXCEPT !.ev = "sweep"])

\* cleanup_all_sessions: every session stopped, then self.sessions.clear()
OvrAll ==
    /\ ovr.sessions # <<>>
    /\ OvrStep([stop_each(ovr, ovr.sessions) EXCEPT !.sessions = <<>>, !.ev = "all"])

\* time passes
OvrTick ==
    /\ ovr.sessions # <<>>
    /\ OvrStep([ovr EXCEPT !.sessions = [i \in 1..Len(@) |-> Older(@[i])]])

\* ------------------------------------------------------- specification
NoResponse == [cfg |-> "none", mcp_env |-> {}, exc |-> "none"]

Init ==
    /\ sessions = <<>>
    /\ active_containers = {}
    /\ nextAgent = 1
    /\ tasks = EmptyBag
    /\ sweep = NoPass
    /\ shutdown = Running
    /\ fresh = [sid \in SessionIds |-> NoAgent]
    /\ cm = NoCM
    /\ sandboxes = {}
    /\ response = NoResponse
    /\ prov = NoProv
    /\ stream = NoStream
    /\ tr = NoTr
    /\ chat = NoChat
    /\ mem = NoMem
    /\ factory = NoFactory
    /\ upload = NoUpload
    /\ replace = NoReplace
    /\ ctask = NoTask
    /\ sbx = NoQuery
    /\ iso = NoIso
    /\ ovr = NoOvr

\* get_or_create_session calls
Legacy ==
    \/ \E conv \in Convs \cup {NoConv}, key \in Keys, run \in RunOutcomes :
          GocCall(conv, key, run)
    \/ \E c \in InFlight, ready \in ReadyOutcomes : GocFinish(c, ready)
    \/ \E c \in InFlight : Return(c)
    \/ Tick

\* cleanup_session and create_session_from_config calls
Managed ==
    \/ \E sid \in SessionIds : CleanupCall(sid)
    \/ \E c \in InFlight, o \in StopOutcomes : CleanupFinish(c, o)
    \/ \E conv \in Convs \cup {NoConv}, cfg \in ConfigArgs, provider \in BOOLEAN,
          run \in RunOutcomes : CscCall(conv, cfg, provider, run)
    \/ \E c \in InFlight, o \in StopOutcomes, run \in RunOutcomes : CscStopDone(c, o, run)
    \/ \E c \in InFlight, ready \in ReadyOutcomes : CscFinish(c, ready)

\* the cleanup_loop task and the lifespan shutdown
Background ==
    \/ SweepSelect
    \/ \E o \in StopOutcomes : SweepStop(o)
    \/ SweepSleep
    \/ ShutdownBegin
    \/ AllSelect
    \/ \E o \in StopOutcomes : AllStop(o)

Next == Legacy \/ Managed \/ Background

Spec == Init /\ [][Next]_vars

NextRequests == Legacy \/ Managed

SpecRequests == Init /\ [][NextRequests]_vars

NextLifecycle == Legacy \/ Background

SpecLifecycle == Init /\ [][NextLifecycle]_vars

NextCM ==
    \/ \E run \in RunOutcomes : CMCreate(run)
    \/ \E a \in Agents, ready \in ReadyOutcomes : CMReady(a, ready)
    \/ \E a \in Agents, backend \in BackendStop : CMStop(a, backend)

SpecCM == Init /\ [][NextCM]_vars

NextLaunch == \E cfg \in ConfigIds, mcp_env \in McpEnvs : Launch(cfg, mcp_env)

SpecLaunch == Init /\ [][NextLaunch]_vars

NextProvider ==
    \/ \E kind \in Kinds, sid \in SessionIds, o \in RunOutcomes \cup FlyPostOutcomes :
          o \in CreateOutcomes(kind) /\ ProvCreateCall(kind, sid, o)
    \/ \E o \in ReloadOutcomes, networks \in NetworkStates, dflt \in BOOLEAN :
           ProvDockerReload(o, networks, dflt)
    \/ \E o \in PollOutcomes : ProvFlyPoll(o)
    \/ \E o \in InfoOutcomes : ProvFlyInfo(o)
    \/ \E o \in HealthOutcomes : ProvHealth(o)
    \/ \E cid \in Agents, fault \in StopFaults : ProvStop(cid, fault)

SpecProvider == Init /\ [][NextProvider]_vars

NextQuery ==
    \/ \E src \in Producers : QueryStart(src)
    \/ QueryConnect
    \/ \E line \in Lines : QueryLine(line)
    \/ \E exc \in Failures : QueryFail(exc)
    \/ QueryEof

SpecQuery == Init /\ [][NextQuery]_vars

NextTranslate ==
    \/ \E mode \in Modes : TrStart(mode)
    \/ \E e \in RawKinds : TrFeed(e)
    \/ TrYield
    \/ TrSourceRaise
    \/ TrSourceEnd
    \/ \E e \in RawKinds : TrLate(e)

SpecTranslate == Init /\ [][NextTranslate]_vars

NextSandbox ==
    \/ \E ok \in BOOLEAN : SbxQuery(ok)
    \/ SbxDisconnect
    \/ \E m \in SdkKinds, fmt \in Formats, raises \in BOOLEAN : SbxMessage(m, fmt, raises)
    \/ SbxSdkRaise
    \/ SbxSdkEnd

SpecSandbox == Init /\ [][NextSandbox]_vars

NextKeys ==
    \/ \E conv \in Convs \cup {NoConv}, key \in ApiKeys : IsoCall(conv, key)
    \/ IsoTick

SpecKeys == Init /\ [][NextKeys]_vars

NextOverride ==
    \/ \E conv \in OvrConvs, provider \in BOOLEAN : OvrCreate(conv, provider)
    \/ \E conv \in OvrConvs : OvrCleanup("conv-" \o conv)
    \/ OvrSweep
    \/ OvrAll
    \/ OvrTick

SpecOverride == Init /\ [][NextOverride]_vars

NextChat ==
    \/ \E bearer \in BOOLEAN, session_id \in BOOLEAN, user_message \in BOOLEAN,
          found \in BOOLEAN : ChatRequest(bearer, session_id, user_message, found)
    \/ \E m \in SdkMessages, cancelled \in BOOLEAN : SandboxMessage(m, cancelled)
    \/ ChatForward
    \/ ChatDisconnect
    \/ ChatTerminate

SpecChat == Init /\ [][NextChat]_vars

NextMemory ==
    \/ \E memory_limit \in MemoryStrings : ParseMemory(memory_limit)
    \/ MemReturn

SpecMemory == Init /\ [][NextMemory]_vars

NextFactory ==
    \/ \E name \in ProviderNames, provider_class \in ProviderClasses \cup {NotAProvider} :
           register_provider(name, provider_class)
    \/ \E platform \in ProviderNames, ctor_raises \in BOOLEAN :
           create_provider(platform, ctor_raises)
    \/ \E platform \in ProviderNames : is_provider_available(platform)

SpecFactory == Init /\ [][NextFactory]_vars

NextUpload ==
    \/ \E files \in FileLists, overwrite \in BOOLEAN, fault \in UploadFaults :
           DockerUpload(files, overwrite, fault)
    \/ \E files \in FileLists, overwrite \in BOOLEAN, fault \in UploadFaults :
           FlyUpload(files, overwrite, fault)

SpecUpload == Init /\ [][NextUpload]_vars

\* get_session calls among the get_or_create_session calls
NextGet ==
    \/ Legacy
    \/ \E sid \in SessionIds : GetCall(sid)

SpecGet == Init /\ [][NextGet]_vars

\* one create_session_from_config call followed among get_or_create_session
\* calls
NextReplace ==
    \/ \E conv \in Convs \cup {NoConv}, cfg \in ConfigArgs, provider \in BOOLEAN,
          run \in RunOutcomes : ReplaceCall(conv, cfg, provider, run)
    \/ \E o \in StopOutcomes, run \in RunOutcomes : ReplaceStopDone(o, run)
    \/ \E ready \in ReadyOutcomes : ReplaceFinish(ready)
    \/ Legacy

SpecReplace == Init /\ [][NextReplace]_vars

\* get_or_create_session calls, one at a time
OneRequest ==
    /\ Legacy
    /\ BagCardinality(tasks') <= 1

\* the SessionManager task interface, called as the tests call it
NextTask ==
    \/ StartCleanupTask
    \/ StopCleanupCall
    \/ TaskCancelled
    \/ StopCleanupReturn
    \/ TaskPass
    \/ OneRequest

SpecTask == Init /\ [][NextTask]_vars

\* requests are served between startup and shutdown
Serving ==
    /\ ctask.started
    /\ Legacy

\* the application from startup to shutdown
NextLifespan ==
    \/ LifespanStartup
    \/ Serving
    \/ TaskPass
    \/ LifespanStop
    \/ TaskCancelled
    \/ LifespanStopped
    \/ AllSelect
    \/ \E o \in StopOutcomes : AllStop(o)

SpecLifespan == Init /\ [][NextLifespan]_vars

\* ================================================================ claims
\* a coroutine reaches state d / leaves state c in this step
Added(d) == CopiesIn(d, tasks') > CopiesIn(d, tasks)

Removed(c) == CopiesIn(c, tasks') < CopiesIn(c, tasks)

\* the idle sweep / cleanup_all_sessions finishes one iteration in this step
SweepIteration == sweep.pc = "stopping" /\ sweep' # sweep /\ sweep'.pc # "cancelled"

AllIteration == shutdown.pc = "stopping" /\ shutdown' # shutdown

\* C1: concurrent get_or_create_session calls for one session id make exactly
\* one container creation call: no two of them are ever inside
\* create_agent_container for the same session id at once.
C1_OneCreationPerSession ==
    \A c \in InFlight, d \in InFlight :
        (c.pc = "goc_wait" /\ d.pc = "goc_wait" /\ c.sid = d.sid) => c = d

\* what C2 requires of one step
C2_Step ==
    /\ (sweep.pc = "sleep" /\ sweep'.pc \in {"stopping", "done"}) =>
          Refs(sweep'.items) =
              {Ref(sessions[i]) : i \in {j \in 1..Len(sessions) :
                                            sessions[j].idle > IdleTimeout}}
    /\ SweepIteration =>
          LET it == sweep.items[sweep.idx] IN
          /\ it \notin Refs(sessions')
          /\ Refs(sessions) \ {it} \subseteq Refs(sessions')

C3_Step ==
    \A sid \in SessionIds :
        fresh[sid] # NoAgent =>
            /\ (fresh'[sid] = NoAgent /\ BagCardinality(tasks') > BagCardinality(tasks))
                  => nextAgent' = nextAgent + 1
            /\ \A how \in {"reuse", "created"} : ~Added(Returned(how, fresh[sid]))

\* C3: after an idle sweep pass has reclaimed a session, the next
\* get_or_create_session for that session id makes a container creation call,
\* and no call is handed the reclaimed container.
C3_FreshAfterReclaim == [][C3_Step]_vars

\* what C4 requires of one step
C4_Step ==
    /\ \A a \in Agents :
          Added(Returned("reuse", a)) =>
              \E sid \in SessionIds :
                  /\ Has(sessions, sid) /\ Get(sessions, sid) = a
                  /\ Refs(sessions') = Refs(sessions)
                  /\ Len(sessions') = Len(sessions)
                  /\ \A i \in 1..Len(sessions) :
                        sessions'[i].idle =
                            IF sessions[i].sid = sid THEN 0 ELSE sessions[i].idle
                  /\ nextAgent' = nextAgent
                  /\ active_containers' = active_containers
    /\ \A c \in BagToSet(tasks') :
          (c.pc = "goc_wait" /\ Added(c)) => ~Has(sessions, c.sid)

\* C4: when the table holds the session id, get_or_create_session returns the
\* stored container, sets its last_active to now (idle time 0), makes no
\* creation call and leaves the set of sessions unchanged; a call that goes on
\* to create a container found no entry for its session id.
C4_ReuseStoredContainer == [][C4_Step]_vars

C4_Witness ==
    \E a \in Agents :
        /\ BagIn(Returned("reuse", a), tasks)
        /\ \E i \in 1..Len(sessions) : sessions[i].agent = a /\ sessions[i].idle = 0

\* what C5 requires of one step
C5_Step ==
    /\ \A c \in InFlight :
          (c.pc = "cs_stop" /\ Removed(c)) => ~Has(sessions', c.sid)
    /\ SweepIteration => sweep.items[sweep.idx] \notin Refs(sessions')

C6_StopAlwaysRemoves ==
    /\ (cm.ev.op = "stop" /\ cm.ev.present) => cm.ev.agent \notin active_containers
    /\ cm.ev.op = "stop" => ~cm.ev.raised
    /\ cm.stopped \cap active_containers = {}

C6_Witness ==
    /\ cm.ev.op = "stop" /\ cm.ev.present /\ cm.ev.arg = "error"
    /\ cm.ev.agent \notin active_containers
    /\ active_containers # {}

\* what C7 requires of one step
C7_Step ==
    \A exc \in {"ValueError", "RuntimeError", "TimeoutError"} :
        Added(Raised(exc)) =>
            /\ active_containers' \subseteq active_containers
            /\ (\A c \in InFlight : c.pc = "csc_stop" => ~Removed(c))
                  => active_containers' = active_containers
            /\ Refs(sessions') \subseteq Refs(sessions)

\* C7: a call that ends with a creation failure (image not found, API error,
\* readiness timeout) adds nothing to active_containers and nothing to the
\* session table; unless it first stopped the session it replaces,
\* active_containers is exactly what it was.
C7_FailedCreateLeavesNoEntry == [][C7_Step]_vars

C7_Witness ==
    /\ BagIn(Raised("TimeoutError"), tasks)
    /\ active_containers # {}
    /\ Len(sessions) > 0
    /\ nextAgent > Cardinality(active_containers) + 1

\* what C8 requires of one step
C8_Step ==
    SweepIteration =>
        LET it == sweep.items[sweep.idx] IN
        /\ sweep'.items = sweep.items
        /\ sweep'.idx = sweep.idx + 1
        /\ sweep'.pc = IF sweep.idx = Len(sweep.items) THEN "done" ELSE "stopping"
        /\ \/ sessions' = sessions /\ active_containers' = active_containers
           \/ ~Has(sessions', it.sid) /\ it.agent \notin active_containers'

\* C8: in a cleanup_idle_sessions pass a raising stop does not end the pass:
\* every iteration moves on to the next selected session, the pass ends only
\* after the last one, and a session whose stop returned is removed.
C8_SweepSurvivesRaise == [][C8_Step]_vars

C8_Witness ==
    /\ sweep.pc = "done"
    /\ Len(sweep.items) = 2
    /\ sweep.items[1] \in Refs(sessions)
    /\ sweep.items[1].agent \in active_containers
    /\ ~Has(sessions, sweep.items[2].sid)
    /\ sweep.items[2].agent \notin active_containers

\* what C9 requires of one step
C9_Step ==
    /\ (shutdown.pc = "cancelled" /\ shutdown'.pc # "cancelled") =>
          /\ shutdown'.items = [i \in 1..Len(sessions) |-> Ref(sessions[i])]
          /\ shutdown'.pc = "down" => sessions' = <<>>
    /\ AllIteration =>
          /\ shutdown'.items = shutdown.items
          /\ shutdown'.idx = shutdown.idx + 1
          /\ shutdown'.pc = IF shutdown.idx = Len(shutdown.items) THEN "down"
                            ELSE "stopping"
          /\ shutdown'.pc = "down" => sessions' = <<>>

\* C9: cleanup_all_sessions takes every session of the table, goes through
\* all of them whether their stops raise or not, and leaves the table empty
\* when it returns.
C9_ShutdownEmptiesTable == [][C9_Step]_vars

C9_Witness ==
    /\ shutdown.pc = "down"
    /\ Len(shutdown.items) = 2
    /\ shutdown.items[1].agent \in active_containers
    /\ shutdown.items[2].agent \notin active_containers
    /\ sessions = <<>>

ProvStopped == prov.ev.op = "stop"

C19_HealthTimeoutTolerated ==
    (prov.ev.op = "create" /\ prov.ev.health = "timeout") =>
        /\ prov.ev.res = "running"
        /\ prov.ev.ip
        /\ prov.active[prov.ev.sid] = prov.ev.cid

C19_Witness ==
    /\ prov.ev.op = "create" /\ prov.ev.health = "timeout" /\ prov.ev.res = "running"
    /\ prov.ev.kind = "docker"
    /\ prov.active[prov.ev.sid] = prov.ev.cid
    /\ \E sid \in SessionIds : prov.active[sid] \notin {NoAgent, prov.ev.cid}

\* what C20 requires of one step
C20_Step ==
    /\ (prov.call.pc = "wait_state" /\ prov'.call.pc = "info") => prov'.call.started
    /\ (prov'.call.kind = "fly" /\ prov'.call.ip) => prov'.call.started
    /\ (prov'.ev.op = "create" /\ prov'.ev.kind = "fly" /\ prov'.ev.ip) => prov'.ev.started
    /\ (prov.call.pc = "wait_state" /\ prov.call.polls >= MaxPolls /\ prov'.call # prov.call) =>
          /\ prov'.call = NoCall
          /\ prov'.ev.op = "create" /\ prov'.ev.res = "TimeoutError"
          /\ ~prov'.ev.ip /\ prov'.ev.health = "none"
          /\ prov'.active = prov.active

\* C20: FlyProvider.create_container asks for the machine's private IP only
\* after _wait_for_machine_state has observed 'started'; when the polls run
\* out without it the call raises TimeoutError, has made no IP discovery and
\* no health poll, and active_machines is what it was.
C20_StartedBeforeAddress == [][C20_Step]_vars

C20_Witness ==
    /\ prov.ev.op = "create" /\ prov.ev.kind = "fly" /\ prov.ev.res = "TimeoutError"
    /\ ~prov.ev.started /\ ~prov.ev.ip
    /\ prov.ev.cid \in prov.backend
    /\ \E sid \in SessionIds : prov.active[sid] # NoAgent

\* what C12 requires of one step
C12_Step ==
    /\ stream'.pc # "raised"
    /\ (stream'.fail # stream.fail /\ stream'.fail # "none") =>
          /\ stream'.pc = "ended"
          /\ stream'.out = Append(stream.out, Event("error", stream.src))
    /\ (stream.pc = "ended" /\ stream'.pc = "ended") => stream'.out = stream.out

C13_EndsAtFirstTerminal ==
    \A i \in 1..Len(stream.out) : Terminal(stream.out[i]) => i = Len(stream.out)

\* positions of the output that carry a finish_reason
Finishes(out) == {i \in 1..Len(out) : out[i].finish # "none"}

\* C14: when the raw events given to stream_to_openai_sse are well-formed and
\* end in an 'error' event (none before it being complete or error), the
\* output holds exactly one chunk with finish_reason 'error', carrying the
\* error text; it comes after the output of all preceding events, every
\* content delta of which was emitted, and only 'data: [DONE]' follows it.
C14_OneTerminalErrorDelta ==
    (tr.mode = "openai" /\ tr.pc = "done" /\ tr.in # <<>> /\ tr.in[Len(tr.in)] = "error") =>
        LET k == Len(tr.out)
            n == Len(tr.in)
        IN
        /\ k >= 2
        /\ tr.out[k] = Done(n)
        /\ tr.out[k - 1] = Out("error-delta", n, "error")
        /\ {i \in 1..k : tr.out[i].finish = "error"} = {k - 1}
        /\ \A i \in 1..(k - 2) : tr.out[i].of < n /\ tr.out[i].finish = "none"
        /\ Cardinality({i \in 1..k : tr.out[i].chunk = "delta"})
              = Cardinality({j \in 1..n : tr.in[j] = "content"})

C14_Witness ==
    /\ tr.mode = "openai" /\ tr.pc = "done"
    /\ tr.in = <<"content", "tool", "error">>
    /\ Len(tr.out) = 4

\* C15: stream_to_openai_sse never raises, whatever the raw event (a data
\* field that is null or not a map included) and also when its source raises.
C15_TranslatorNeverRaises == tr.mode = "openai" => tr.pc # "raised"

\* what C16 requires of one step
C16_Step ==
    /\ Len(tr'.in) > Len(tr.in) => tr.pending = <<>>
    /\ \A i \in 1..Len(tr'.out) : \A j \in i..Len(tr'.out) : tr'.out[i].of <= tr'.out[j].of
    /\ \A i \in 1..Len(tr'.pending) : tr'.pending[i].of = Len(tr'.in)
    /\ \A i \in 1..Len(tr'.out) : tr'.out[i].of <= Len(tr'.in)

\* C16: in both modes the output keeps the order of the raw events: what is
\* produced for an event is emitted before anything produced for a later
\* event, and before the next raw event is taken from the source.
C16_OrderPreserved == [][C16_Step]_vars

C16_Witness ==
    /\ tr.mode = "claude" /\ tr.pc = "done"
    /\ tr.in = <<"content", "todo", "complete">>
    /\ Len(tr.out) = 4
    /\ tr.out[2].of = 2 /\ tr.out[3].of = 3

\* what C17 requires of one step
C17_Step ==
    tr'.mode = "openai" =>
        /\ Cardinality(Finishes(tr'.out)) <= 1
        /\ \A i \in Finishes(tr'.out) :
              \/ i = Len(tr'.out)
              \/ i = Len(tr'.out) - 1 /\ tr'.out[Len(tr'.out)].chunk = "DONE"
        /\ (\E j \in 1..Len(tr.in) : tr.in[j] \in {"complete", "error"}) =>
              /\ tr'.in = tr.in \/ tr'.in = <<>>
              /\ tr'.ignored > tr.ignored => tr'.out = tr.out /\ tr'.pending = tr.pending

\* C17: a stream_to_openai_sse output holds at most one chunk with a
\* finish_reason; only 'data: [DONE]' follows it; after the first complete
\* or error event no raw event is taken from the source and none produces
\* output.
C17_SingleFinish == [][C17_Step]_vars

C17_Witness ==
    /\ tr.mode = "openai" /\ tr.pc = "done"
    /\ tr.in = <<"content", "complete">>
    /\ tr.ignored = 1
    /\ Len(tr.out) = 3
    /\ tr.out[2].finish = "stop"

\* C18: when the caller of a streaming query disconnects in the middle of the
\* stream, the streaming operation of the orchestrator has issued an
\* interrupt / stop signal to the agent process by the time its stream
\* terminates.
C18_InterruptOnDisconnect == chat.pc = "terminated" => chat.signal # {}

\* C21: DockerProvider.create_container uses the address on the attached
\* network when that address is not empty, otherwise the default address when
\* that is not empty, and fails provisioning only when neither is present.
C21_AddressPreference ==
    /\ (prov.call.kind = "docker" /\ prov.call.networks # "unread") =>
           prov.call.addr = IF prov.call.networks = "address" THEN "network" ELSE "default"
    /\ (prov.ev.op = "create" /\ prov.ev.kind = "docker" /\ prov.ev.networks # "unread"
          /\ prov.ev.res # "created") =>
           (prov.ev.health = "none" => prov.ev.networks # "address" /\ ~prov.ev.dflt)

\* a memory string that is one number followed by the unit u (a sequence of
\* letters, empty for a bare number)
NumberWith(s, u) == Len(s) = 1 + Len(u) /\ s[1].c = "#" /\ Tail(s) = u

\* the unit suffixes the parser knows
Units == {<<Ch("g")>>, <<Ch("g"), Ch("b")>>, <<Ch("m")>>, <<Ch("m"), Ch("b")>>,
          <<Ch("k")>>, <<Ch("k"), Ch("b")>>}

\* a number with an optional unit, in any case, with blanks around it
WellFormed(s) == \E u \in Units \cup {<<>>} : NumberWith(strip(lower(s)), u)

\* C22: '<n>g' and '<n>gb' give 1024 * n, '<n>m' and '<n>mb' give n ('4g' 4096,
\* '2048m' 2048, '1gb' 1024, '512mb' 512); a string that is not a number with
\* an optional unit raises the invalid-resource error (ValueError) and yields
\* no value.
C22_MemoryConversion ==
    mem.pc = "done" =>
        /\ (NumberWith(mem.arg, <<Ch("g")>>) \/ NumberWith(mem.arg, <<Ch("g"), Ch("b")>>)) =>
               (mem.exc = "none" /\ mem.ret = 1024 * mem.arg[1].n)
        /\ (NumberWith(mem.arg, <<Ch("m")>>) \/ NumberWith(mem.arg, <<Ch("m"), Ch("b")>>)) =>
               (mem.exc = "none" /\ mem.ret = mem.arg[1].n)
        /\ ~WellFormed(mem.arg) => mem.exc = "ValueError"

\* C23 as stated: a bare number N gives the integer part of N / 1e6
\* ('1000000' gives 1).
C23_BareNumberDecimal ==
    (mem.pc = "done" /\ NumberWith(mem.arg, <<>>)) =>
        (mem.exc = "none" /\ mem.ret = mem.arg[1].n \div 1000000)

\* C23: a bare number N is taken as bytes and gives the integer part of
\* N / (1024 * 1024): '1048576' gives 1, '1000000' gives 0.
C23_BareNumberBinary ==
    (mem.pc = "done" /\ NumberWith(mem.arg, <<>>)) =>
        (mem.exc = "none" /\ mem.ret = mem.arg[1].n \div 1048576)

C23_Witness ==
    mem.pc = "done" /\ mem.arg = <<Num(1048576)>> /\ mem.ret = 1 /\ mem.exc = "none"

\* what C24 requires of one step
C24_Step ==
    (factory'.ev.op = "create" /\ factory' # factory /\ ~factory'.ev.known) =>
        /\ factory'.ev.res = "ValueError"
        /\ factory'.built = factory.built
        /\ factory'.providers = factory.providers

\* C24: create_provider with a name that is not registered raises ValueError,
\* constructs no provider of any kind and leaves the registry unchanged.
C24_UnknownNameFailsClosed == [][C24_Step]_vars

C24_Witness ==
    /\ factory.ev.op = "create" /\ factory.ev.platform = "nonexistent"
    /\ factory.ev.res = "ValueError"
    /\ factory.built # <<>>

\* C25: DockerProvider.upload_files with overwrite false fails with 409 if
\* one of the target files exists in the container, and then writes nothing
\* into the container.
C25_DockerConflictWritesNothing ==
    (upload.ev.kind = "docker" /\ ~upload.ev.overwrite
       /\ Names(upload.ev.files) \cap upload.ev.before # {}) =>
        /\ upload.ev.wrote = {}
        /\ upload.fs = upload.ev.before
        /\ upload.ev.fault = "none" => upload.ev.status = 409

C25_Witness ==
    /\ upload.ev.kind = "docker" /\ ~upload.ev.overwrite /\ upload.ev.status = 409
    /\ Len(upload.ev.files) = 2
    /\ upload.ev.files[1] \notin upload.ev.before
    /\ upload.ev.files[2] \in upload.ev.before

\* C26: FlyProvider.upload_files fails with 409 when the sandbox reports that
\* a target file exists and overwrite is false.
C26_FlyConflict ==
    (upload.ev.kind = "fly" /\ ~upload.ev.overwrite /\ upload.ev.sandbox = 409) =>
        upload.ev.status = 409

\* the get_session calls that end in this step
GetEnds == {d \in BagToSet(tasks') :
               /\ d.res \in {"got", "SessionNotFoundError"}
               /\ CopiesIn(d, tasks') > CopiesIn(d, tasks)}

\* what C27 requires of one step
C27_Step ==
    \A d \in GetEnds :
        ~Has(sessions, d.sid) =>
            /\ d.pc = "raised" /\ d.res = "SessionNotFoundError"
            /\ sessions' = sessions
            /\ nextAgent' = nextAgent
            /\ active_containers' = active_containers

\* C27: get_session for a session id that is not in the table raises
\* SessionNotFoundError, creates no container and leaves the table unchanged.
C27_GetUnknownRaises == [][C27_Step]_vars

C27_Witness ==
    /\ \E d \in InFlight : d.res = "SessionNotFoundError" /\ d.sid = "conv-c1"
    /\ Has(sessions, "user-sha256:k1")

\* what C28 requires of one step
C28_Step ==
    (replace'.pc = "returned" /\ replace.pc # "returned" /\ replace.had) =>
        /\ replace'.log = <<Called("stop", replace.old), Called("create", replace.agent)>>
        /\ replace.agent # replace.old
        /\ Has(sessions', replace.sid)
        /\ Get(sessions', replace.sid) = replace.agent
        /\ Cardinality({i \in 1..Len(sessions') : sessions'[i].sid = replace.sid}) = 1

\* C28: create_session_from_config for a conversation id whose session exists
\* calls stop_container once for the old container, before the new container
\* is created, and on return the session id maps to the new container only.
C28_ReplaceStopsOldOnce == [][C28_Step]_vars

C28_Witness ==
    /\ replace.pc = "returned" /\ replace.had
    /\ replace.old \notin active_containers
    /\ Has(sessions, replace.sid) /\ Get(sessions, replace.sid) = replace.agent

\* what C29 requires of one step
C29_Step ==
    /\ ctask'.live <= 1
    /\ (ctask'.ev = "already_running" /\ ctask.ev # "already_running") =>
           (ctask.handle /\ ctask'.handle /\ ctask'.live = ctask.live /\ sweep' = sweep)
    /\ (ctask.waiting /\ ~ctask'.waiting) =>
           (~ctask'.handle /\ ctask'.live = 0 /\ sweep'.pc = "cancelled")

\* C29: at most one cleanup task exists at any time: start_cleanup_task while
\* a task is running creates no second task and keeps the existing one, and
\* stop_cleanup_task cancels the task and resets the handle to None.
C29_OneCleanupTask == [][C29_Step]_vars

C29_Witness ==
    ctask.ev = "already_running" /\ ctask.live = 1 /\ sweep.pc = "stopping"

\* what C30 requires of one step
C30_Step ==
    /\ (ctask.started /\ shutdown.pc = "up" /\ ~ctask.waiting) =>
           (ctask.live = 1 /\ ctask.handle /\ sweep.pc \in {"sleep", "stopping", "done"})
    /\ (ctask.started /\ shutdown.pc # "up") =>
           (ctask.live = 0 /\ sweep.pc = "cancelled" /\ sweep' = sweep)

\* C30: between startup and shutdown the idle sweep keeps running (a stop that
\* raises inside a pass does not end the loop), and once stop_cleanup_task
\* has returned at shutdown no sweep pass runs, so none overlaps
\* cleanup_all_sessions.
C30_SweepWhileUp == [][C30_Step]_vars

C30_Witness ==
    /\ ctask.started /\ shutdown.pc = "stopping"
    /\ sweep.pc = "cancelled" /\ Len(sessions) > 0

\* everything the translator has produced so far, taken by the consumer or not
Produced == tr.out \o tr.pending

\* what was produced for the raw event at position j
ProducedFor(j) ==
    LET For(o) == o.of = j IN SelectSeq(Produced, For)

\* C31: in compatibility mode each raw 'message' event yields at most one
\* output: a content event with non-empty text yields one text delta with
\* finish_reason null, a content event with empty or missing text yields
\* nothing, a tool_start / tool_use / tool_complete / thinking event yields one
\* 'data-tool' part, a todo_update yields one 'data-todo' part, and every
\* other message type (metadata, system) yields nothing.
C31_MessageOutputs ==
    tr.mode = "openai" =>
        \A j \in 1..Len(tr.in) :
            /\ tr.in[j] \in Messages \cup {"null_data"} => Len(ProducedFor(j)) <= 1
            /\ tr.in[j] = "content" => ProducedFor(j) = <<Out("delta", j, "none")>>
            /\ tr.in[j] = "tool" => ProducedFor(j) = <<Out("data-tool", j, "none")>>
            /\ tr.in[j] = "todo" => ProducedFor(j) = <<Out("data-todo", j, "none")>>
            /\ tr.in[j] \in {"empty", "meta"} => ProducedFor(j) = <<>>

C31_Witness ==
    /\ tr.mode = "openai" /\ tr.pc = "running"
    /\ tr.in = <<"empty", "todo", "content">>
    /\ tr.out = <<Out("data-todo", 2, "none"), Out("delta", 3, "none")>>

C36_EndsWithDone ==
    tr.pc = "done" =>
        LET k == Len(tr.out) IN
        /\ k >= 2
        /\ tr.out[k].chunk = "DONE"
        /\ tr.out[k - 1].chunk \in {"final", "error-delta", "complete", "error"}

\* what C33 requires of one step
C33_Step ==
    /\ (sbx'.seen /\ ~sbx.seen) =>
           (sbx'.interrupts = 1 /\ sbx'.out = sbx.out /\ sbx'.pc = "ended")
    /\ (sbx.seen /\ sbx'.seen) => (sbx'.interrupts = 1 /\ sbx'.out = sbx.out)

\* C33: in process_query_stream, once request.is_disconnected() is observed
\* true, sdk_client.interrupt() is called exactly once and no further event
\* (message, complete or error) is yielded afterwards, also when interrupt()
\* itself raises.
C33_InterruptOnceThenSilent == [][C33_Step]_vars

C33_Witness ==
    /\ sbx.seen /\ sbx.interrupts = 1 /\ sbx.pc = "ended"
    /\ sbx.out = <<"message", "message", "message">>

\* a creation call is suspended inside create_agent_container
Creating == \E c \in InFlight : c.pc \in {"goc_wait", "csc_wait"}

\* C34: whenever no container creation is in progress, every container in
\* ContainerManager.active_containers is the container of some session in
\* SessionManager.sessions, also after concurrent get_or_create_session or
\* create_session_from_config calls for the same session id.
C34_NoOrphanContainer ==
    ~Creating => \A a \in active_containers : \E i \in 1..Len(sessions) : sessions[i].agent = a

\* C35: if a provisioning call fails after the backend container has been
\* started (DockerProvider: no IP address found), the started container is
\* stopped and removed before the failure is reported, so no running
\* container exists that no table tracks.
C35_FailedCreateStopsContainer ==
    (/\ prov.ev.op = "create" /\ prov.ev.kind = "docker"
     /\ prov.ev.cid # NoAgent /\ prov.ev.res # "running") =>
        prov.ev.cid \notin prov.backend

\* the table entry of a session id
EntryOf(s, sid) == s[CHOOSE i \in 1..Len(s) : s[i].sid = sid]

\* what C37 requires of one step: the pass stops its next selected session
C37_Step ==
    (sweep.pc = "stopping" /\ sweep'.idx = sweep.idx + 1) =>
        LET it == sweep.items[sweep.idx] IN
        (/\ Has(sessions, it.sid)
         /\ EntryOf(sessions, it.sid).agent = it.agent
         /\ ~IsIdle(EntryOf(sessions, it.sid))) =>
            /\ Has(sessions', it.sid)
            /\ EntryOf(sessions', it.sid).agent = it.agent
            /\ it.agent \in active_containers => it.agent \in active_containers'

KeepsOther(sid, agent) ==
    (Has(sessions, sid) /\ Get(sessions, sid) # agent) =>
        (Has(sessions', sid) /\ Get(sessions', sid) = Get(sessions, sid))

\* what C38 requires of one step: a cleanup_session call returns from its
\* awaited stop, or the sweep pass from the stop of its next selected session
C38_Step ==
    /\ \A c \in InFlight :
          (c.pc \in {"cs_stop", "csc_stop"} /\ CopiesIn(c, tasks') < CopiesIn(c, tasks)) =>
              KeepsOther(c.sid, c.agent)
    /\ (sweep.pc = "stopping" /\ sweep'.idx = sweep.idx + 1) =>
          KeepsOther(sweep.items[sweep.idx].sid, sweep.items[sweep.idx].agent)

C39_KeyIsolation ==
    iso.ev.how \in {"reuse", "created"} => iso.owner[iso.ev.agent] = iso.ev.key

====
